---------------------------- MODULE Spec2Model ----------------------------
(***************************************************************************)
(* Model of the stockcraft order book: the deterministic matching core     *)
(* (internal/orderbook/core: book.go, core.go) and the event-sourced read  *)
(* model (internal/orderbook/view: view.go, tape.go).                      *)
(*                                                                         *)
(* The core's heap objects are modelled explicitly: resting-order nodes    *)
(* with their prev/next/level pointers, price levels with head/tail and    *)
(* totalVolume, and each side's binary heap of levels with the sift        *)
(* algorithms of container/heap.  A node pointer is the id the node was    *)
(* created with; a level pointer is the level's price on its side.         *)
(***************************************************************************)
EXTENDS Integers, Sequences, FiniteSets, TLC

(***************************************************************************)
(* Bounds of the model.                                                    *)
(***************************************************************************)
MaxId == 3
MaxPrice == 3
MaxSize == 2
MaxUser == 1
MaxTime == 1
TapeCapacity == 1
ViewMaxPrice == 2
SeqMaxPrice == 2
SeqMaxSize == 2
SeqMaxTime == 2
MktMaxTickerList == 3
SnapMaxCalls == 3
SnapMaxPrice == 1
SnapMaxSize == 2
SnapMaxSnapshots == 2
LifeMaxId == 3
LifeMaxPrice == 2
LifeMaxSize == 3
CommandBuffer == 1
EventBuffer == 1
ExternalEventBuffer == 1
SvcCallers == 2
SvcMaxPrice == 1
SvcMaxSize == 1
SvcMaxId == 1
SvcClosers == 2
TapeMaxCapacity == 3
TapeMaxAppends == 4
TapeMaxPrice == 2
MktTickers == 2
MktMaxCalls == 3
MktMaxId == 2
MktClosers == 2
MarketEventBuffer == 1

(***************************************************************************)
(* Program constants.                                                      *)
(***************************************************************************)
SideBuy == 0
SideSell == 1
OrderKindLimit == 0
OrderKindMarket == 1
RemoveReasonFilled == 0
RemoveReasonCanceled == 1
nil == 0
cmdSubmitLimit == 0
cmdSubmitMarket == 1
cmdCancel == 2

(***************************************************************************)
(* Finite maps (Go maps) as functions with an explicit key set.            *)
(***************************************************************************)
EmptyMap == [k \in {} |-> 0]
MapPut(m, k, v) == [x \in (DOMAIN m) \cup {k} |-> IF x = k THEN v ELSE m[x]]
MapDelete(m, k) == [x \in (DOMAIN m) \ {k} |-> m[x]]

(***************************************************************************)
(* levelHeap: container/heap over data []*level; index[l] is the position  *)
(* of l in data.  Positions are 0-based as in the source.                  *)
(***************************************************************************)
Less(isBid, data, i, j) ==
    IF isBid THEN data[i + 1] > data[j + 1] ELSE data[i + 1] < data[j + 1]

Swap(data, i, j) == [data EXCEPT ![i + 1] = data[j + 1], ![j + 1] = data[i + 1]]

RECURSIVE up(_, _, _)
up(isBid, data, j) ==
    LET i == IF j = 0 THEN 0 ELSE (j - 1) \div 2
    IN  IF i = j \/ ~Less(isBid, data, j, i)
        THEN data
        ELSE up(isBid, Swap(data, i, j), i)

RECURSIVE downLoop(_, _, _, _)
downLoop(isBid, data, i, n) ==
    LET j1 == 2 * i + 1
        j2 == j1 + 1
        j  == IF j2 < n /\ Less(isBid, data, j2, j1) THEN j2 ELSE j1
    IN  IF j1 >= n
        THEN [data |-> data, i |-> i]
        ELSE IF ~Less(isBid, data, j, i)
             THEN [data |-> data, i |-> i]
             ELSE downLoop(isBid, Swap(data, i, j), j, n)

down(isBid, data, i0, n) ==
    LET r == downLoop(isBid, data, i0, n)
    IN  [data |-> r.data, moved |-> r.i > i0]

heapPush(isBid, data, p) == up(isBid, Append(data, p), Len(data))

heapRemove(isBid, data, i) ==
    LET n == Len(data) - 1
    IN  IF n # i
        THEN LET s == Swap(data, i, n)
                 d == down(isBid, s, i, n)
                 u == IF ~d.moved THEN up(isBid, d.data, i) ELSE d.data
             IN  SubSeq(u, 1, n)
        ELSE SubSeq(data, 1, n)

best(data) == IF Len(data) = 0 THEN nil ELSE data[1]

IndexOf(data, p) ==
    IF \E k \in 1..Len(data) : data[k] = p
    THEN (CHOOSE k \in 1..Len(data) : data[k] = p) - 1
    ELSE -1

\* a removal that drops the last slot of the heap, whatever level it holds
hRemoveLevel_Last(isBid, data, p) == SubSeq(data, 1, Len(data) - 1)

hRemoveLevel(isBid, data, p) ==
    LET i == IndexOf(data, p)
    IN  IF i < 0 THEN data ELSE heapRemove(isBid, data, i)

(***************************************************************************)
(* The order book: ob = [bids, asks, orders, nodes].                       *)
(*   bids, asks : bookSide = [levels : price -> level, h : heap data]      *)
(*   level      : [price, head, tail, totalVolume]                         *)
(*   orders     : the set of keys of the id -> *restingOrder map           *)
(*   nodes      : the restingOrder objects, by pointer                     *)
(***************************************************************************)
newBookSide == [levels |-> EmptyMap, h |-> << >>]

newOrderBook ==
    [bids |-> newBookSide, asks |-> newBookSide, orders |-> {}, nodes |-> EmptyMap]

sideFor(ob, s) == IF s = SideBuy THEN ob.bids ELSE ob.asks

SetSide(ob, isBid, bs) ==
    IF isBid THEN [ob EXCEPT !.bids = bs] ELSE [ob EXCEPT !.asks = bs]

SideOf(ob, isBid) == IF isBid THEN ob.bids ELSE ob.asks

SetLevel(ob, isBid, l) ==
    LET bs == SideOf(ob, isBid)
    IN  IF l.price \in DOMAIN bs.levels
        THEN SetSide(ob, isBid, [bs EXCEPT !.levels[l.price] = l])
        ELSE ob

bestLevel(bs) == best(bs.h)

\* filled only below zero
isFilled_BelowZero(o) == o.size < 0

isFilled(o) == o.size <= 0

\* the link of node o at the head of level p instead of its tail
append_AtHead(ob, isBid, p, o) ==
    LET l  == SideOf(ob, isBid).levels[p]
        n1 == [ob.nodes EXCEPT ![o].level = p, ![o].prev = nil, ![o].next = l.head]
        n2 == IF l.head # nil THEN [n1 EXCEPT ![l.head].prev = o] ELSE n1
        l2 == IF l.head # nil THEN [l EXCEPT !.head = o]
                              ELSE [l EXCEPT !.head = o, !.tail = o]
    IN  SetLevel([ob EXCEPT !.nodes = n2], isBid, l2)

\* level.append: link node o (a pointer into ob.nodes) at the tail of level p.
append(ob, isBid, p, o) ==
    LET l  == SideOf(ob, isBid).levels[p]
        n1 == [ob.nodes EXCEPT ![o].level = p, ![o].prev = l.tail, ![o].next = nil]
        n2 == IF l.tail # nil THEN [n1 EXCEPT ![l.tail].next = o] ELSE n1
        l2 == IF l.tail # nil THEN [l EXCEPT !.tail = o]
                              ELSE [l EXCEPT !.head = o, !.tail = o]
    IN  SetLevel([ob EXCEPT !.nodes = n2], isBid, l2)

\* level.popHead on the level at price p of one side.
popHead(ob, isBid, p) ==
    LET l  == SideOf(ob, isBid).levels[p]
        o  == l.head
        n  == ob.nodes[o].next
        n1 == IF n # nil THEN [ob.nodes EXCEPT ![n].prev = nil] ELSE ob.nodes
        n2 == [n1 EXCEPT ![o].prev = nil, ![o].next = nil, ![o].level = nil]
        l2 == IF n # nil THEN [l EXCEPT !.head = n]
                         ELSE [l EXCEPT !.head = nil, !.tail = nil]
    IN  IF o = nil
        THEN ob
        ELSE SetLevel([ob EXCEPT !.nodes = n2], isBid, l2)

\* the unlink that takes o for the head of the level whatever precedes it
unlink_AsHead(ob, isBid, p, o) ==
    LET l  == SideOf(ob, isBid).levels[p]
        nd == ob.nodes[o]
        l1 == [l EXCEPT !.head = nd.next]
        n2 == IF nd.next # nil THEN [ob.nodes EXCEPT ![nd.next].prev = nd.prev]
                               ELSE ob.nodes
        l2 == IF nd.next # nil THEN l1 ELSE [l1 EXCEPT !.tail = nd.prev]
        n3 == [n2 EXCEPT ![o].prev = nil, ![o].next = nil, ![o].level = nil]
    IN  SetLevel([ob EXCEPT !.nodes = n3], isBid, l2)

\* level.unlink: remove node o from anywhere in the level at price p.
unlink(ob, isBid, p, o) ==
    LET l  == SideOf(ob, isBid).levels[p]
        nd == ob.nodes[o]
        n1 == IF nd.prev # nil THEN [ob.nodes EXCEPT ![nd.prev].next = nd.next]
                               ELSE ob.nodes
        l1 == IF nd.prev # nil THEN l ELSE [l EXCEPT !.head = nd.next]
        n2 == IF nd.next # nil THEN [n1 EXCEPT ![nd.next].prev = nd.prev] ELSE n1
        l2 == IF nd.next # nil THEN l1 ELSE [l1 EXCEPT !.tail = nd.prev]
        n3 == [n2 EXCEPT ![o].prev = nil, ![o].next = nil, ![o].level = nil]
    IN  SetLevel([ob EXCEPT !.nodes = n3], isBid, l2)

\* a totalVolume that gains one more than delta
addVolume_OneMore(ob, isBid, p, delta) ==
    IF isBid THEN [ob EXCEPT !.bids.levels[p].totalVolume = @ + delta + 1]
             ELSE [ob EXCEPT !.asks.levels[p].totalVolume = @ + delta + 1]

\* l.totalVolume += delta, on the level at price p of one side
addVolume(ob, isBid, p, delta) ==
    IF isBid THEN [ob EXCEPT !.bids.levels[p].totalVolume = @ + delta]
             ELSE [ob EXCEPT !.asks.levels[p].totalVolume = @ + delta]

\* delete(ob.orders, id)
\* an id that stays in the id map
deleteOrder_Keeps(ob, id) == ob

deleteOrder(ob, id) == [ob EXCEPT !.orders = @ \ {id}]

\* bookSide.getOrCreate, on one side of the book
getOrCreate(ob, isBid, price) ==
    IF price \in DOMAIN SideOf(ob, isBid).levels
    THEN ob
    ELSE SetSide(ob, isBid,
             [levels |-> MapPut(SideOf(ob, isBid).levels, price,
                                [price |-> price, head |-> nil, tail |-> nil,
                                 totalVolume |-> 0]),
              h |-> heapPush(isBid, SideOf(ob, isBid).h, price)])

\* bookSide.removeLevel, on one side of the book
removeLevel(ob, isBid, price) ==
    SetSide(ob, isBid,
        [levels |-> MapDelete(SideOf(ob, isBid).levels, price),
         h |-> hRemoveLevel(isBid, SideOf(ob, isBid).h, price)])

\* if l.totalVolume <= 0 || l.head == nil { side.removeLevel(l) }
removeIfEmpty(ob, isBid, p) ==
    IF \/ SideOf(ob, isBid).levels[p].totalVolume <= 0
       \/ SideOf(ob, isBid).levels[p].head = nil
    THEN removeLevel(ob, isBid, p)
    ELSE ob

\* orderBook.addResting
addResting(ob, o) ==
    LET isBid == (o.side = SideBuy)
        node  == [id |-> o.id, userID |-> o.userID, side |-> o.side,
                  price |-> o.price, size |-> o.size, time |-> o.time,
                  level |-> nil, prev |-> nil, next |-> nil]
        ob1   == [ob EXCEPT !.nodes = MapPut(@, o.id, node)]
        ob2   == getOrCreate(ob1, isBid, o.price)
        ob3   == append(ob2, isBid, o.price, o.id)
        ob4   == addVolume(ob3, isBid, o.price, node.size)
    IN  [ob4 EXCEPT !.orders = @ \cup {node.id}]

\* the cancel that leaves the id in the id map
cancel_KeepsId(ob, id) ==
    IF id \notin ob.orders
    THEN [ob |-> ob, node |-> nil, ok |-> FALSE]
    ELSE LET node  == ob.nodes[id]
             isBid == (node.side = SideBuy)
             p     == node.level
             ob1   == addVolume(ob, isBid, p, -node.size)
             ob2   == unlink(ob1, isBid, p, id)
             ob3   == removeIfEmpty(ob2, isBid, p)
         IN  [ob |-> IF p # nil THEN ob3 ELSE ob, node |-> node, ok |-> TRUE]

\* orderBook.cancel: returns [ob, node, ok]; node is the order as it was
\* found (unlink changes its links only)
cancel(ob, id) ==
    IF id \notin ob.orders
    THEN [ob |-> ob, node |-> nil, ok |-> FALSE]
    ELSE LET node  == ob.nodes[id]
             isBid == (node.side = SideBuy)
             p     == node.level
             ob1   == addVolume(ob, isBid, p, -node.size)
             ob2   == unlink(ob1, isBid, p, id)
             ob3   == removeIfEmpty(ob2, isBid, p)
         IN  [ob |-> deleteOrder(IF p # nil THEN ob3 ELSE ob, id),
              node |-> node, ok |-> TRUE]

\* Nodes no pointer refers to any more are collected.
Gc(ob) ==
    [ob EXCEPT !.nodes = [x \in {y \in DOMAIN ob.nodes :
                                    y \in ob.orders \/ ob.nodes[y].level # nil}
                          |-> ob.nodes[x]]]

(***************************************************************************)
(* Events and reports (events.go, core.go).                                *)
(***************************************************************************)
TradeEvent(price, size, takerSide, time, takerId, takerUser, makerId, makerUser) ==
    [type |-> "Trade", Price |-> price, Size |-> size, TakerSide |-> takerSide,
     Time |-> time, TakerOrderID |-> takerId, TakerUserID |-> takerUser,
     MakerOrderID |-> makerId, MakerUserID |-> makerUser]

OrderRestedEvent(id, user, side, price, size, time) ==
    [type |-> "Rested", OrderID |-> id, UserID |-> user, Side |-> side,
     Price |-> price, Size |-> size, Time |-> time]

OrderReducedEvent(id, delta, remaining, price, side, user, matchTime) ==
    [type |-> "Reduced", OrderID |-> id, Delta |-> delta, Remaining |-> remaining,
     Price |-> price, Side |-> side, UserID |-> user, MatchTime |-> matchTime]

OrderRemovedEvent(id, reason, remaining, price, side, user, time) ==
    [type |-> "Removed", OrderID |-> id, Reason |-> reason, Remaining |-> remaining,
     Price |-> price, Side |-> side, UserID |-> user, Time |-> time]

Fill(makerId, price, size) == [MakerOrderID |-> makerId, Price |-> price, Size |-> size]

ZeroSubmitReport == [OrderID |-> 0, Remaining |-> 0, Fills |-> << >>, Rested |-> FALSE]
ZeroCancelReport == [OrderID |-> 0, CanceledSize |-> 0]

ErrNone == "nil"
ErrInvalidOrder == "invalid order"
ErrDuplicateID == "duplicate order id"
ErrNotFound == "order not found"

\* the validation of a limit order without the check of its time
validateLimit_NoTimeCheck(o) ==
    IF o.kind # OrderKindLimit THEN ErrInvalidOrder
    ELSE IF o.id = 0 \/ o.userID = 0 THEN ErrInvalidOrder
    ELSE IF o.size <= 0 THEN ErrInvalidOrder
    ELSE IF o.price <= 0 THEN ErrInvalidOrder
    ELSE IF o.side # SideBuy /\ o.side # SideSell THEN ErrInvalidOrder
    ELSE ErrNone

validateLimit(o) ==
    IF o.kind # OrderKindLimit THEN ErrInvalidOrder
    ELSE IF o.id = 0 \/ o.userID = 0 THEN ErrInvalidOrder
    ELSE IF o.size <= 0 THEN ErrInvalidOrder
    ELSE IF o.price <= 0 THEN ErrInvalidOrder
    ELSE IF o.side # SideBuy /\ o.side # SideSell THEN ErrInvalidOrder
    ELSE IF o.time <= 0 THEN ErrInvalidOrder
    ELSE ErrNone

validateMarket(o) ==
    IF o.kind # OrderKindMarket THEN ErrInvalidOrder
    ELSE IF o.id = 0 \/ o.userID = 0 THEN ErrInvalidOrder
    ELSE IF o.size <= 0 THEN ErrInvalidOrder
    ELSE IF o.side # SideBuy /\ o.side # SideSell THEN ErrInvalidOrder
    ELSE IF o.time <= 0 THEN ErrInvalidOrder
    ELSE ErrNone

(***************************************************************************)
(* Core.match.  m = [ob, remaining, fills, events] is the state of the     *)
(* loops; the opposite side is the bids exactly when the taker sells.      *)
(***************************************************************************)
\* the larger of the two sizes instead of the smaller
tradedSize_Larger(remaining, makerSize) ==
    IF makerSize < remaining THEN remaining ELSE makerSize

\* traded := *remaining; if maker.size < traded { traded = maker.size }
tradedSize(remaining, makerSize) ==
    IF makerSize < remaining THEN makerSize ELSE remaining

\* a trade that leaves the maker's size in the book as it was
tradeMaker_KeepsSize(m, taker, p, maker, traded) ==
    LET oppIsBid == (taker.side = SideSell)
        mk  == [maker EXCEPT !.size = @ - traded]
        ob2 == addVolume(m.ob, oppIsBid, p, -traded)
    IN  [ob        |-> IF isFilled(mk)
                       THEN deleteOrder(popHead(ob2, oppIsBid, p), mk.id)
                       ELSE ob2,
         remaining |-> m.remaining - traded,
         fills     |-> Append(m.fills, Fill(mk.id, p, traded)),
         events    |-> m.events \o
              << TradeEvent(p, traded, taker.side, taker.time,
                            taker.id, taker.userID, mk.id, mk.userID),
                 IF isFilled(mk)
                 THEN OrderRemovedEvent(mk.id, RemoveReasonFilled, 0, mk.price,
                                        mk.side, mk.userID, taker.time)
                 ELSE OrderReducedEvent(mk.id, -traded, mk.size, mk.price,
                                        mk.side, mk.userID, taker.time) >>]

\* one pass of the inner loop when it trades: maker is the level's head as
\* it is before the trade, traded > 0 the size of the trade
tradeMaker(m, taker, p, maker, traded) ==
    LET oppIsBid == (taker.side = SideSell)
        mk  == [maker EXCEPT !.size = @ - traded]
        ob1 == [m.ob EXCEPT !.nodes[maker.id].size = @ - traded]
        ob2 == addVolume(ob1, oppIsBid, p, -traded)
    IN  [ob        |-> IF isFilled(mk)
                       THEN deleteOrder(popHead(ob2, oppIsBid, p), mk.id)
                       ELSE ob2,
         remaining |-> m.remaining - traded,
         fills     |-> Append(m.fills, Fill(mk.id, p, traded)),
         events    |-> m.events \o
              << TradeEvent(p, traded, taker.side, taker.time,
                            taker.id, taker.userID, mk.id, mk.userID),
                 IF isFilled(mk)
                 THEN OrderRemovedEvent(mk.id, RemoveReasonFilled, 0, mk.price,
                                        mk.side, mk.userID, taker.time)
                 ELSE OrderReducedEvent(mk.id, -traded, mk.size, mk.price,
                                        mk.side, mk.userID, taker.time) >>]

\* one pass of the inner loop, on the level best at price p (best.price = p)
matchMaker(m, taker, p) ==
    LET oppIsBid == (taker.side = SideSell)
        maker    == m.ob.nodes[SideOf(m.ob, oppIsBid).levels[p].head]
        traded   == tradedSize(m.remaining, maker.size)
    IN  IF maker.size <= 0 \/ traded <= 0
        THEN [m EXCEPT !.ob = deleteOrder(popHead(@, oppIsBid, p), maker.id)]
        ELSE tradeMaker(m, taker, p, maker, traded)

\* the inner loop: for *remaining > 0 && best.head != nil
RECURSIVE matchLevel(_, _, _)
matchLevel(m, taker, p) ==
    IF m.remaining > 0 /\ SideOf(m.ob, taker.side = SideSell).levels[p].head # nil
    THEN matchLevel(matchMaker(m, taker, p), taker, p)
    ELSE m

\* the limit check with both comparisons reversed
beyondLimit_Reversed(taker, hasLimit, limitPrice, bestPrice) ==
    /\ hasLimit
    /\ \/ taker.side = SideBuy /\ bestPrice < limitPrice
       \/ taker.side = SideSell /\ bestPrice > limitPrice

\* the limit check without its sell case
beyondLimit_BuyOnly(taker, hasLimit, limitPrice, bestPrice) ==
    /\ hasLimit
    /\ taker.side = SideBuy /\ bestPrice > limitPrice

\* the limit check stopping at the limit price itself
beyondLimit_AtLimit(taker, hasLimit, limitPrice, bestPrice) ==
    /\ hasLimit
    /\ \/ taker.side = SideBuy /\ bestPrice >= limitPrice
       \/ taker.side = SideSell /\ bestPrice <= limitPrice

\* the limit check of the outer loop
beyondLimit(taker, hasLimit, limitPrice, bestPrice) ==
    /\ hasLimit
    /\ \/ taker.side = SideBuy /\ bestPrice > limitPrice
       \/ taker.side = SideSell /\ bestPrice < limitPrice

\* the outer loop: for *remaining > 0
RECURSIVE matchLoop(_, _, _, _)
matchLoop(m, taker, hasLimit, limitPrice) ==
    LET oppIsBid == (taker.side = SideSell)
        bp == bestLevel(SideOf(m.ob, oppIsBid))
    IN  IF ~(m.remaining > 0) \/ bp = nil
        THEN m
        ELSE IF beyondLimit(taker, hasLimit, limitPrice, bp)
        THEN m
        ELSE matchLoop([matchLevel(m, taker, bp) EXCEPT
                            !.ob = removeIfEmpty(@, oppIsBid, bp)],
                       taker, hasLimit, limitPrice)

match(ob, taker, remaining, hasLimit, limitPrice) ==
    matchLoop([ob |-> ob, remaining |-> remaining, fills |-> << >>, events |-> << >>],
              taker, hasLimit, limitPrice)

(***************************************************************************)
(* Core.SubmitLimit, Core.SubmitMarket, Core.Cancel: each returns          *)
(* [ob, report, events, err].                                              *)
(***************************************************************************)
Rejected(ob, report, err) ==
    [ob |-> ob, report |-> report, events |-> << >>, err |-> err]

\* SubmitLimit after match returned m: the remainder rests
restRemaining(o, m) ==
    [ob |-> Gc(IF m.remaining > 0
               THEN addResting(m.ob, [o EXCEPT !.size = m.remaining])
               ELSE m.ob),
     report |-> [OrderID |-> o.id, Remaining |-> m.remaining,
                 Fills |-> m.fills, Rested |-> m.remaining > 0],
     events |-> IF m.remaining > 0
                THEN Append(m.events,
                         OrderRestedEvent(o.id, o.userID, o.side, o.price,
                                          m.remaining, o.time))
                ELSE m.events,
     err |-> ErrNone]

\* SubmitLimit looking for a duplicate id only after it has matched
SubmitLimit_MatchesFirst(ob, o) ==
    IF validateLimit(o) # ErrNone THEN Rejected(ob, ZeroSubmitReport, validateLimit(o))
    ELSE IF o.id \in ob.orders
    THEN Rejected(Gc(match(ob, o, o.size, TRUE, o.price).ob), ZeroSubmitReport,
                  ErrDuplicateID)
    ELSE restRemaining(o, match(ob, o, o.size, TRUE, o.price))

SubmitLimit(ob, o) ==
    IF validateLimit(o) # ErrNone THEN Rejected(ob, ZeroSubmitReport, validateLimit(o))
    ELSE IF o.id \in ob.orders THEN Rejected(ob, ZeroSubmitReport, ErrDuplicateID)
    ELSE restRemaining(o, match(ob, o, o.size, TRUE, o.price))

\* the remainder of a market order rested like a limit order's
dropRemaining_Rests(o, m) == restRemaining(o, m)

\* SubmitMarket after match returned m: the remainder is dropped
dropRemaining(o, m) ==
    [ob |-> Gc(m.ob),
     report |-> [OrderID |-> o.id, Remaining |-> m.remaining,
                 Fills |-> m.fills, Rested |-> FALSE],
     events |-> m.events, err |-> ErrNone]

SubmitMarket(ob, o) ==
    IF validateMarket(o) # ErrNone THEN Rejected(ob, ZeroSubmitReport, validateMarket(o))
    ELSE IF o.id \in ob.orders THEN Rejected(ob, ZeroSubmitReport, ErrDuplicateID)
    ELSE dropRemaining(o, match(ob, o, o.size, FALSE, 0))

\* Cancel after orderBook.cancel returned c
canceled(ob, id, now, c) ==
    IF ~c.ok THEN Rejected(ob, ZeroCancelReport, ErrNotFound)
    ELSE [ob |-> Gc(c.ob),
          report |-> [OrderID |-> id, CanceledSize |-> c.node.size],
          events |-> << OrderRemovedEvent(c.node.id, RemoveReasonCanceled,
                            c.node.size, c.node.price, c.node.side,
                            c.node.userID, now) >>,
          err |-> ErrNone]

\* Cancel without the check of the id
Cancel_NoIdCheck(ob, id, now) ==
    IF now <= 0 THEN Rejected(ob, ZeroCancelReport, ErrInvalidOrder)
    ELSE canceled(ob, id, now, cancel(ob, id))

Cancel(ob, id, now) ==
    IF id = 0 \/ now <= 0 THEN Rejected(ob, ZeroCancelReport, ErrInvalidOrder)
    ELSE canceled(ob, id, now, cancel(ob, id))

(***************************************************************************)
(* TradeTape (view/tape.go): a ring buffer t = [buf, size, start, count].  *)
(***************************************************************************)
ZeroTrade == TradeEvent(0, 0, 0, 0, 0, 0, 0, 0)

NewTradeTape(capacity) ==
    LET c == IF capacity <= 0 THEN 1 ELSE capacity
    IN  [buf |-> [i \in 1..c |-> ZeroTrade], size |-> c, start |-> 0, count |-> 0]

\* Append that overwrites the oldest trade of a full tape without moving start
TapeAppend_KeepsStart(t, tr) ==
    IF t.count < t.size
    THEN [t EXCEPT !.buf[((t.start + t.count) % t.size) + 1] = tr,
                   !.count = t.count + 1]
    ELSE [t EXCEPT !.buf[t.start + 1] = tr]

TapeAppend(t, tr) ==
    IF t.count < t.size
    THEN [t EXCEPT !.buf[((t.start + t.count) % t.size) + 1] = tr,
                   !.count = t.count + 1]
    ELSE [t EXCEPT !.buf[t.start + 1] = tr,
                   !.start = (t.start + 1) % t.size]

TapeLast(t, n) ==
    IF n <= 0 \/ t.count = 0
    THEN << >>
    ELSE LET k     == IF n > t.count THEN t.count ELSE n
             first == (t.start + (t.count - k)) % t.size
         IN  [i \in 1..k |-> t.buf[((first + (i - 1)) % t.size) + 1]]

(***************************************************************************)
(* BookView (view/view.go): v = [orders, bids, asks, tape].                *)
(***************************************************************************)
NewBookView(tapeCapacity) ==
    [orders |-> EmptyMap, bids |-> EmptyMap, asks |-> EmptyMap,
     tape |-> NewTradeTape(tapeCapacity)]

\* m[k] of a Go map: the zero value when the key is absent
MapGet(m, k) == IF k \in DOMAIN m THEN m[k] ELSE 0

\* the update of a total without the delete of an entry that reached zero
AddThenPrune_KeepsZero(m, price, delta) ==
    MapPut(m, price, MapGet(m, price) + delta)

\* m[price] += delta, then delete the entry if it is <= 0
AddThenPrune(m, price, delta) ==
    LET x == MapGet(m, price) + delta
    IN  IF x <= 0 THEN MapDelete(m, price) ELSE MapPut(m, price, x)

Apply(v, e) ==
    IF e.type = "Trade" THEN [v EXCEPT !.tape = TapeAppend(v.tape, e)]
    ELSE IF e.type = "Rested" THEN
        LET st == [userID |-> e.UserID, side |-> e.Side, price |-> e.Price,
                   size |-> e.Size, time |-> e.Time]
            v1 == [v EXCEPT !.orders = MapPut(v.orders, e.OrderID, st)]
        IN  IF e.Side = SideBuy
            THEN [v1 EXCEPT !.bids = MapPut(v.bids, e.Price, MapGet(v.bids, e.Price) + e.Size)]
            ELSE [v1 EXCEPT !.asks = MapPut(v.asks, e.Price, MapGet(v.asks, e.Price) + e.Size)]
    ELSE IF e.type = "Reduced" THEN
        IF e.OrderID \notin DOMAIN v.orders THEN v
        ELSE LET st == v.orders[e.OrderID]
                 v1 == IF st.side = SideBuy
                       THEN [v EXCEPT !.bids = AddThenPrune(v.bids, st.price, e.Delta)]
                       ELSE [v EXCEPT !.asks = AddThenPrune(v.asks, st.price, e.Delta)]
             IN  [v1 EXCEPT !.orders[e.OrderID].size = e.Remaining]
    ELSE IF e.type = "Removed" THEN
        IF e.OrderID \notin DOMAIN v.orders THEN v
        ELSE LET st == v.orders[e.OrderID]
                 v1 == IF st.side = SideBuy
                       THEN [v EXCEPT !.bids = AddThenPrune(v.bids, st.price, -st.size)]
                       ELSE [v EXCEPT !.asks = AddThenPrune(v.asks, st.price, -st.size)]
             IN  [v1 EXCEPT !.orders = MapDelete(v.orders, e.OrderID)]
    ELSE v

RECURSIVE ApplyAll(_, _)
ApplyAll(v, evs) ==
    IF evs = << >> THEN v ELSE ApplyAll(Apply(v, Head(evs)), Tail(evs))

\* a comparator that puts the lowest price first on both sides
levelBefore_LowestFirst(side, a, b) == a.Price < b.Price

\* the comparator of Levels' sort.Slice
levelBefore(side, a, b) ==
    IF side = SideBuy THEN a.Price > b.Price ELSE a.Price < b.Price

\* a comparator that puts the latest time first at one price
orderBefore_LatestFirst(side, a, b) ==
    IF a.Price # b.Price
    THEN (IF side = SideBuy THEN a.Price > b.Price ELSE a.Price < b.Price)
    ELSE IF a.Time # b.Time THEN a.Time > b.Time
    ELSE a.ID < b.ID

\* the comparator of Orders' sort.Slice: best price, then time, then id
orderBefore(side, a, b) ==
    IF a.Price # b.Price
    THEN (IF side = SideBuy THEN a.Price > b.Price ELSE a.Price < b.Price)
    ELSE IF a.Time # b.Time THEN a.Time < b.Time
    ELSE a.ID < b.ID

\* sort.Slice: both comparators are strict total orders on what they sort
RECURSIVE SortLevels(_, _)
SortLevels(S, side) ==
    IF S = {} THEN << >>
    ELSE LET x == CHOOSE y \in S : \A z \in S \ {y} : levelBefore(side, y, z)
         IN  << x >> \o SortLevels(S \ {x}, side)

RECURSIVE SortOrders(_, _)
SortOrders(S, side) ==
    IF S = {} THEN << >>
    ELSE LET x == CHOOSE y \in S : \A z \in S \ {y} : orderBefore(side, y, z)
         IN  << x >> \o SortOrders(S \ {x}, side)

Levels(v, side) ==
    LET src == IF side = SideBuy THEN v.bids ELSE v.asks
    IN  SortLevels({[Price |-> p, Size |-> src[p]] : p \in DOMAIN src}, side)

Orders(v, side) ==
    SortOrders({[ID |-> id, UserID |-> v.orders[id].userID, Side |-> v.orders[id].side,
                 Price |-> v.orders[id].price, Size |-> v.orders[id].size,
                 Time |-> v.orders[id].time] :
                id \in {x \in DOMAIN v.orders : v.orders[x].side = side}}, side)

TradesLast(v, n) == TapeLast(v.tape, n)

(***************************************************************************)
(* State.                                                                  *)
(*   ob      the core's order book                                         *)
(*   view    the BookView fed with the core's events                       *)
(*   call    the observed call: [op, o] or [op, id, now]                   *)
(*   ret     what it returned: [report, events, err]                       *)
(*   pre     the book and the history the observed call started from       *)
(*   hist    a history of the event stream, kept beside the book and never *)
(*           read by it:                                                   *)
(*             arrived   for each side and price, the ids resting there in *)
(*                       the order in which their Rested events occurred   *)
(*             rested    for each resting id, the size of its Rested event *)
(*             owed      for each resting id, the size of its Rested event *)
(*                       minus the sizes of the Trades naming it as maker  *)
(*             lastTrade the last Trade event emitted, if any              *)
(*   log     the event log: every event the core has returned, in order    *)
(*           (kept where a specification says so)                          *)
(*   issued  the kind of the order each id was submitted with (likewise)   *)
(*   svc     the orderbook Service: its configuration, channels and flags  *)
(*   tasks   the goroutines of the service and of its users                *)
(***************************************************************************)
VARIABLES ob, view, call, ret, pre, hist, log, issued, svc, tasks

vars == << ob, view, call, ret, pre, hist, log, issued, svc, tasks >>

InvalidSide == SideSell + 1

\* orders a caller may pass: every valid one ...
ValidOrders(kind) ==
    [id : 1..MaxId, userID : 1..MaxUser, side : {SideBuy, SideSell}, kind : {kind},
     price : IF kind = OrderKindLimit THEN 1..MaxPrice ELSE {0, 1},
     size : 1..MaxSize, time : 1..MaxTime]

\* ... and orders that break one precondition each, built from two orders
\* that would cross any resting opposite order
ProbeOrders(kind) ==
    {[id |-> 1, userID |-> 1, side |-> SideBuy, kind |-> kind, price |-> MaxPrice,
      size |-> 1, time |-> 1],
     [id |-> 1, userID |-> 1, side |-> SideSell, kind |-> kind, price |-> 1,
      size |-> 1, time |-> 1]}

InvalidOrders(kind) ==
    UNION {{[o EXCEPT !.id = 0], [o EXCEPT !.userID = 0], [o EXCEPT !.size = 0],
            [o EXCEPT !.size = -1], [o EXCEPT !.side = InvalidSide],
            [o EXCEPT !.time = 0], [o EXCEPT !.time = -1],
            [o EXCEPT !.kind = 1 - kind]} \cup
           (IF kind = OrderKindLimit
            THEN {[o EXCEPT !.price = 0], [o EXCEPT !.price = -1]} ELSE {})
           : o \in ProbeOrders(kind)}

InputOrders(kind) == ValidOrders(kind) \cup InvalidOrders(kind)

CancelIds == 0..MaxId
CancelTimes == 0..(MaxTime + 1)

NoTrade == [type |-> "none"]

NoHist == [arrived |-> EmptyMap, rested |-> EmptyMap, owed |-> EmptyMap,
           lastTrade |-> NoTrade]

ArrivedKey(e) == << e.Side, e.Price >>

Without(q, id) == SelectSeq(q, LAMBDA x : x # id)

\* the history after one more event
HistApply(h, e) ==
    IF e.type = "Rested"
    THEN [h EXCEPT !.arrived = MapPut(h.arrived, ArrivedKey(e),
                                  Append(IF ArrivedKey(e) \in DOMAIN h.arrived
                                         THEN h.arrived[ArrivedKey(e)] ELSE << >>,
                                         e.OrderID)),
                   !.rested = MapPut(h.rested, e.OrderID, e.Size),
                   !.owed = MapPut(h.owed, e.OrderID, e.Size)]
    ELSE IF e.type = "Removed"
    THEN LET q == IF ArrivedKey(e) \in DOMAIN h.arrived
                  THEN Without(h.arrived[ArrivedKey(e)], e.OrderID) ELSE << >>
         IN  [h EXCEPT !.arrived = IF q = << >> THEN MapDelete(h.arrived, ArrivedKey(e))
                                   ELSE MapPut(h.arrived, ArrivedKey(e), q),
                       !.rested = MapDelete(h.rested, e.OrderID),
                       !.owed = MapDelete(h.owed, e.OrderID)]
    ELSE IF e.type = "Trade" /\ e.MakerOrderID \in DOMAIN h.owed
    THEN [h EXCEPT !.owed[e.MakerOrderID] = h.owed[e.MakerOrderID] - e.Size]
    ELSE h

RECURSIVE HistAll(_, _)
HistAll(h, evs) ==
    IF evs = << >> THEN h ELSE HistAll(HistApply(h, Head(evs)), Tail(evs))

\* the last Trade among evs, or last when there is none
LastTradeOf(evs, last) ==
    LET I == {i \in 1..Len(evs) : evs[i].type = "Trade"}
    IN  IF I = {} THEN last ELSE evs[CHOOSE i \in I : \A j \in I : j <= i]

NoCall == [op |-> "none", o |-> 0, id |-> 0, now |-> 0]

\* no service has been constructed: the core is called directly
NoService == [closed |-> FALSE]
NoTasks == [worker |-> "none"]

Init ==
    /\ ob = newOrderBook
    /\ view = NewBookView(TapeCapacity)
    /\ call = NoCall
    /\ ret = [report |-> ZeroSubmitReport, events |-> << >>, err |-> ErrNone]
    /\ pre = [ob |-> newOrderBook, hist |-> NoHist]
    /\ hist = NoHist
    /\ log = << >>
    /\ issued = EmptyMap
    /\ svc = NoService
    /\ tasks = NoTasks

(***************************************************************************)
(* A run is a sequence of calls on the core, made from one thread.  The    *)
(* harness may keep the outcome of a call for inspection (observe): it     *)
(* records the call, what it returned and the book it started from, and    *)
(* the run ends there.  Every call from every reachable book is observed   *)
(* in some run, so a statement about the observed call is a statement      *)
(* about every call.                                                       *)
(***************************************************************************)
Returns(c, r, observe) ==
    /\ call = NoCall
    /\ ob' = r.ob
    /\ hist' = HistAll(hist, r.events)
    /\ IF observe
       THEN /\ call' = c
            /\ ret' = [report |-> r.report, events |-> r.events, err |-> r.err]
            /\ pre' = [ob |-> ob, hist |-> hist]
       ELSE UNCHANGED << call, ret, pre >>
    /\ UNCHANGED << log, issued, svc, tasks >>

DoSubmitLimit ==
    \E o \in InputOrders(OrderKindLimit), observe \in BOOLEAN :
        /\ Returns([op |-> "SubmitLimit", o |-> o], SubmitLimit(ob, o), observe)
        /\ UNCHANGED view

DoSubmitMarket ==
    \E o \in InputOrders(OrderKindMarket), observe \in BOOLEAN :
        /\ Returns([op |-> "SubmitMarket", o |-> o], SubmitMarket(ob, o), observe)
        /\ UNCHANGED view

DoCancel ==
    \E id \in CancelIds, now \in CancelTimes, observe \in BOOLEAN :
        /\ Returns([op |-> "Cancel", id |-> id, now |-> now], Cancel(ob, id, now), observe)
        /\ UNCHANGED view

Next == DoSubmitLimit \/ DoSubmitMarket \/ DoCancel

Spec == Init /\ [][Next]_vars

(***************************************************************************)
(* The core with its read model: every event a call returns is applied to  *)
(* the view, in order, before the next call (what the service's dispatcher *)
(* does with the events of the worker).  Valid calls only, on the prices   *)
(* up to ViewMaxPrice; the history also keeps the last Trade emitted.      *)
(***************************************************************************)
Feeds(r) ==
    /\ ob' = r.ob
    /\ hist' = [HistAll(hist, r.events) EXCEPT
                    !.lastTrade = LastTradeOf(r.events, hist.lastTrade)]
    /\ view' = ApplyAll(view, r.events)
    /\ UNCHANGED << call, ret, pre, log, issued, svc, tasks >>

ViewOrders(kind) ==
    {o \in ValidOrders(kind) : o.price <= ViewMaxPrice /\ (kind = OrderKindLimit \/ o.price = 0)}

FeedSubmitLimit == \E o \in ViewOrders(OrderKindLimit) : Feeds(SubmitLimit(ob, o))

FeedSubmitMarket == \E o \in ViewOrders(OrderKindMarket) : Feeds(SubmitMarket(ob, o))

FeedCancel == \E id \in 1..MaxId, now \in 1..MaxTime : Feeds(Cancel(ob, id, now))

NextView == FeedSubmitLimit \/ FeedSubmitMarket \/ FeedCancel

SpecView == Init /\ [][NextView]_vars

(***************************************************************************)
(* The core under commands whose order ids are pairwise distinct (what the *)
(* service's id generator gives it), with the event log and the kind of    *)
(* every order submitted kept beside it.                                   *)
(***************************************************************************)
Logs(r) ==
    /\ ob' = r.ob
    /\ hist' = HistAll(hist, r.events)
    /\ log' = log \o r.events
    /\ UNCHANGED << view, call, ret, pre, svc, tasks >>

LifeOrders(kind) ==
    {o \in [id : 1..LifeMaxId, userID : 1..MaxUser, side : {SideBuy, SideSell},
            kind : {kind},
            price : IF kind = OrderKindLimit THEN 1..LifeMaxPrice ELSE {0},
            size : 1..LifeMaxSize, time : 1..MaxTime] :
        o.id \notin DOMAIN issued}

LifeSubmitLimit ==
    \E o \in LifeOrders(OrderKindLimit) :
        /\ Logs(SubmitLimit(ob, o))
        /\ issued' = MapPut(issued, o.id, o.kind)

LifeSubmitMarket ==
    \E o \in LifeOrders(OrderKindMarket) :
        /\ Logs(SubmitMarket(ob, o))
        /\ issued' = MapPut(issued, o.id, o.kind)

LifeCancel ==
    \E id \in 1..LifeMaxId, now \in 1..MaxTime :
        /\ Logs(Cancel(ob, id, now))
        /\ UNCHANGED issued

NextLife == LifeSubmitLimit \/ LifeSubmitMarket \/ LifeCancel

SpecLife == Init /\ [][NextLife]_vars

(***************************************************************************)
(* The orderbook Service (service.go).  svc is the Service struct: cfg,    *)
(* idGen, the three channels with what they hold (externalClosed: the      *)
(* dispatcher has closed externalEvents), droppedExternal, closed and the  *)
(* count wg of goroutines not yet done.  The core and the view it owns are *)
(* ob and view.  An event travels with its position n in the event log.    *)
(*                                                                         *)
(* tasks holds the goroutines: the command processor (worker), the event   *)
(* dispatcher, one goroutine per caller of SubmitLimit, SubmitMarket or    *)
(* Cancel (each with its context and its respCh), the callers of Close and *)
(* the subscriber reading Events().  A select with several ready cases     *)
(* takes any of them.  A goroutine shown at a select may not have reached  *)
(* it yet; a caller that has, and found no case ready, is parked ("sending"*)
(* in sendq for the first select, "parked" for the second) and returns by  *)
(* the first case made ready.  svc.sendq is cmdCh's queue of parked        *)
(* senders.  tasks.panic names a run-time panic, if one happened.  Beside  *)
(* them tasks keeps what was observed: the positions put on internalEvents *)
(* (emitted), applied to the view (applied), and per caller whether its    *)
(* context had fired when it called (fired), whether Close had returned    *)
(* when it called (afterClose), whether its command was executed and with  *)
(* which events (evs), and whether the context had fired when the worker   *)
(* sent the reply (late).                                                  *)
(***************************************************************************)
ErrCanceled == "context canceled"

\* idGen starts at the clock's reading, a number that only fixes where the
\* ids begin; here it starts at 0, so the ids are 1, 2, ...
NewService(drop) ==
    [cfg |-> [CommandBuffer |-> CommandBuffer, EventBuffer |-> EventBuffer,
              DropExternalEvents |-> drop,
              ExternalEventBuffer |-> ExternalEventBuffer],
     idGen |-> 0, cmdCh |-> << >>, internalEvents |-> << >>,
     externalEvents |-> << >>, externalClosed |-> FALSE,
     droppedExternal |-> 0, closed |-> FALSE, closeOnce |-> FALSE,
     sendq |-> << >>, wg |-> 2]

NoCommand == [typ |-> cmdCancel, userID |-> 0, side |-> SideBuy, price |-> 0,
              size |-> 0, id |-> 0, respCh |-> 0]

NoResponse == [report |-> ZeroSubmitReport, err |-> ErrNone]

NoResult == [via |-> "none", report |-> ZeroSubmitReport, err |-> ErrNone]

NoEvent == [n |-> 0, ev |-> NoTrade]

StartTasks ==
    [worker     |-> [pc |-> "select", cmd |-> NoCommand, events |-> << >>,
                     resp |-> NoResponse],
     dispatcher |-> [pc |-> "select", ev |-> NoEvent],
     callers    |-> [c \in 1..SvcCallers |->
                        [pc |-> "idle", ctxDone |-> FALSE, fired |-> FALSE,
                         afterClose |-> FALSE, cmd |-> NoCommand,
                         respCh |-> << >>, result |-> NoResult,
                         executed |-> FALSE, evs |-> {}, late |-> FALSE]],
     closers    |-> [k \in 1..SvcClosers |-> "idle"],
     panic      |-> "none",
     received   |-> << >>,
     emitted    |-> << >>,
     applied    |-> << >>]

InitSvc ==
    /\ ob = newOrderBook
    /\ view = NewBookView(TapeCapacity)
    /\ call = NoCall
    /\ ret = [report |-> ZeroSubmitReport, events |-> << >>, err |-> ErrNone]
    /\ pre = [ob |-> newOrderBook, hist |-> NoHist]
    /\ hist = NoHist
    /\ log = << >>
    /\ issued = EmptyMap
    /\ \E drop \in BOOLEAN : svc = NewService(drop)
    /\ tasks = StartTasks

\* the commands caller c may send
Commands(c) ==
    [typ : {cmdSubmitLimit}, userID : 1..MaxUser, side : {SideBuy, SideSell},
     price : 1..SvcMaxPrice, size : 1..SvcMaxSize, id : {0}, respCh : {c}]
    \cup
    [typ : {cmdSubmitMarket}, userID : 1..MaxUser, side : {SideBuy, SideSell},
     price : {0}, size : 1..SvcMaxSize, id : {0}, respCh : {c}]
    \cup
    [typ : {cmdCancel}, userID : {0}, side : {SideBuy}, price : {0}, size : {0},
     id : 1..SvcMaxId, respCh : {c}]

\* Close() has returned to some caller of it
CloseHasReturned == \E k \in 1..SvcClosers : tasks.closers[k] = "returned"

\* a caller's record once it has returned without a response:
\* case <-s.closed or case <-ctx.Done()
Canceled(rec, via) ==
    [rec EXCEPT !.pc = "returned", !.cmd = NoCommand,
                !.result = [via |-> via, report |-> ZeroSubmitReport,
                            err |-> ErrCanceled]]

\* the caller returns without a response: <-s.closed or <-ctx.Done()
ReturnsCanceled(c, via) ==
    /\ tasks' = [tasks EXCEPT
                    !.callers[c] = Canceled(@, via),
                    !.callers[c].fired =
                        IF tasks.callers[c].pc = "idle"
                        THEN tasks.callers[c].ctxDone ELSE @,
                    !.callers[c].afterClose =
                        IF tasks.callers[c].pc = "idle" THEN CloseHasReturned ELSE @]
    /\ UNCHANGED svc

\* Service.SubmitLimit, SubmitMarket, Cancel up to and with the first
\* select; with no case ready the caller is parked as a sender on cmdCh
CallEnqueue(c) ==
    /\ tasks.callers[c].pc = "idle"
    /\ \E cmd \in Commands(c) :
          \/ svc.closed /\ ReturnsCanceled(c, "closed")
          \/ tasks.callers[c].ctxDone /\ ReturnsCanceled(c, "ctx")
          \/ /\ Len(svc.cmdCh) < svc.cfg.CommandBuffer
             /\ svc' = [svc EXCEPT !.cmdCh = Append(@, cmd)]
             /\ tasks' = [tasks EXCEPT
                             !.callers[c].pc = "await",
                             !.callers[c].fired = tasks.callers[c].ctxDone,
                             !.callers[c].afterClose = CloseHasReturned]
          \/ /\ ~svc.closed
             /\ ~tasks.callers[c].ctxDone
             /\ ~(Len(svc.cmdCh) < svc.cfg.CommandBuffer)
             /\ svc' = [svc EXCEPT !.sendq = Append(@, c)]
             /\ tasks' = [tasks EXCEPT
                             !.callers[c].pc = "sending",
                             !.callers[c].cmd = cmd]
    /\ UNCHANGED << ob, view, call, ret, pre, hist, log, issued >>

\* q without c
Unqueued(q, c) == SelectSeq(q, LAMBDA x : x # c)

\* the caller's context is cancelled (or its deadline passes); a caller
\* parked in a select returns by it
CtxFire(c) ==
    /\ tasks.callers[c].pc \in {"idle", "sending", "await", "parked"}
    /\ ~tasks.callers[c].ctxDone
    /\ tasks' = [tasks EXCEPT
                    !.callers[c] =
                        IF tasks.callers[c].pc \in {"sending", "parked"}
                        THEN Canceled([@ EXCEPT !.ctxDone = TRUE], "ctx")
                        ELSE [@ EXCEPT !.ctxDone = TRUE]]
    /\ svc' = [svc EXCEPT !.sendq = Unqueued(@, c)]
    /\ UNCHANGED << ob, view, call, ret, pre, hist, log, issued >>

\* a caller's record once it has returned the response resp
Responded(rec, resp) ==
    [rec EXCEPT !.pc = "returned",
                !.result = [via |-> "resp", report |-> resp.report, err |-> resp.err]]

\* the second select of Service.SubmitLimit, SubmitMarket, Cancel; with no
\* case ready the caller is parked
CallAwait(c) ==
    /\ tasks.callers[c].pc = "await"
    /\ \/ svc.closed /\ ReturnsCanceled(c, "closed")
       \/ tasks.callers[c].ctxDone /\ ReturnsCanceled(c, "ctx")
       \/ /\ tasks.callers[c].respCh # << >>
          /\ tasks' = [tasks EXCEPT
                          !.callers[c] =
                              Responded([@ EXCEPT !.respCh = Tail(@)],
                                        Head(tasks.callers[c].respCh))]
          /\ UNCHANGED svc
       \/ /\ ~svc.closed
          /\ ~tasks.callers[c].ctxDone
          /\ tasks.callers[c].respCh = << >>
          /\ tasks' = [tasks EXCEPT !.callers[c].pc = "parked"]
          /\ UNCHANGED svc
    /\ UNCHANGED << ob, view, call, ret, pre, hist, log, issued >>

\* the order Service.processCommand builds for a submit
orderOf(cmd, id, now) ==
    [id |-> id, userID |-> cmd.userID, side |-> cmd.side,
     kind |-> IF cmd.typ = cmdSubmitLimit THEN OrderKindLimit ELSE OrderKindMarket,
     price |-> IF cmd.typ = cmdSubmitLimit THEN cmd.price ELSE 0,
     size |-> cmd.size, time |-> now]

\* the core call of Service.processCommand
coreCall(book, cmd, id, now) ==
    IF cmd.typ = cmdSubmitLimit THEN SubmitLimit(book, orderOf(cmd, id, now))
    ELSE IF cmd.typ = cmdSubmitMarket THEN SubmitMarket(book, orderOf(cmd, id, now))
    ELSE Cancel(book, cmd.id, now)

\* the events taken last first
Tagged_LastFirst(evs, base) ==
    [i \in 1..Len(evs) |->
        [n |-> base + Len(evs) + 1 - i, ev |-> evs[Len(evs) + 1 - i]]]

\* events with their positions in the log, which has base events so far
Tagged(evs, base) == [i \in 1..Len(evs) |-> [n |-> base + i, ev |-> evs[i]]]

\* cmdCh after a receive: the command of the first sender parked on the
\* full channel takes the freed place
Received(q) ==
    IF svc.sendq = << >> THEN Tail(q)
    ELSE Append(Tail(q), tasks.callers[Head(svc.sendq)].cmd)

\* the callers after a receive from cmdCh: that sender's send is done
SenderWoken(cs) ==
    IF svc.sendq = << >> THEN cs
    ELSE [cs EXCEPT ![Head(svc.sendq)].pc = "await",
                    ![Head(svc.sendq)].cmd = NoCommand,
                    ![Head(svc.sendq)].afterClose = CloseHasReturned]

\* Service.processCommand from the core call to the loop over its events
Processes(cmd, r) ==
    /\ ob' = r.ob
    /\ log' = log \o r.events
    /\ svc' = [svc EXCEPT !.cmdCh = Received(@),
                          !.sendq = IF @ = << >> THEN @ ELSE Tail(@),
                          !.idGen = IF cmd.typ = cmdCancel THEN @ ELSE @ + 1]
    /\ tasks' = [tasks EXCEPT
                    !.worker = [pc |-> IF r.events = << >> THEN "reply" ELSE "emit",
                                cmd |-> cmd,
                                events |-> Tagged(r.events, Len(log)),
                                resp |-> [report |-> r.report, err |-> r.err]],
                    !.callers = [SenderWoken(@) EXCEPT
                                    ![cmd.respCh].executed = TRUE,
                                    ![cmd.respCh].evs =
                                        (Len(log) + 1)..(Len(log) + Len(r.events))]]

\* Service.runCommandProcessor: its select takes <-s.closed and the worker
\* returns
WorkerReturns ==
    /\ tasks.worker.pc = "select"
    /\ svc.closed
    /\ tasks' = [tasks EXCEPT !.worker.pc = "done"]
    /\ svc' = [svc EXCEPT !.wg = @ - 1]
    /\ UNCHANGED << ob, log, view, call, ret, pre, hist, issued >>

\* Service.runCommandProcessor: its select takes a command from cmdCh,
\* which processCommand runs up to its core call
WorkerReceives ==
    /\ tasks.worker.pc = "select"
    /\ svc.cmdCh # << >>
    /\ \E now \in 1..MaxTime :
          Processes(Head(svc.cmdCh),
                    coreCall(ob, Head(svc.cmdCh), svc.idGen + 1, now))
    /\ UNCHANGED << view, call, ret, pre, hist, issued >>

\* Service.runCommandProcessor: the select of its loop
WorkerSelect == WorkerReturns \/ WorkerReceives

\* the worker is done with the first of its pending events
Emitted(sent) ==
    tasks' = [tasks EXCEPT
                 !.worker.events = Tail(@),
                 !.worker.pc = IF Len(tasks.worker.events) = 1 THEN "reply" ELSE "emit",
                 !.emitted = IF sent THEN Append(@, Head(tasks.worker.events).n) ELSE @]

\* Service.emitEvent as a plain send, with no case <-s.closed
WorkerEmit_NoClosedCase ==
    /\ tasks.worker.pc = "emit"
    /\ Len(svc.internalEvents) < svc.cfg.EventBuffer
    /\ svc' = [svc EXCEPT !.internalEvents = Append(@, Head(tasks.worker.events))]
    /\ Emitted(TRUE)
    /\ UNCHANGED << ob, view, call, ret, pre, hist, log, issued >>

\* Service.emitEvent for the next event of the command
WorkerEmit ==
    /\ tasks.worker.pc = "emit"
    /\ \/ /\ Len(svc.internalEvents) < svc.cfg.EventBuffer
          /\ svc' = [svc EXCEPT !.internalEvents = Append(@, Head(tasks.worker.events))]
          /\ Emitted(TRUE)
       \/ /\ svc.closed
          /\ UNCHANGED svc
          /\ Emitted(FALSE)
    /\ UNCHANGED << ob, view, call, ret, pre, hist, log, issued >>

\* cmd.respCh <- resp, a send to a channel made with room for one response;
\* a caller parked in its second select returns with it
WorkerReply ==
    /\ tasks.worker.pc = "reply"
    /\ Len(tasks.callers[tasks.worker.cmd.respCh].respCh) < 1
    /\ tasks' = [tasks EXCEPT
                    !.worker.pc = "select",
                    !.callers[tasks.worker.cmd.respCh] =
                        IF @.pc = "parked"
                        THEN Responded([@ EXCEPT !.late = FALSE], tasks.worker.resp)
                        ELSE [@ EXCEPT !.respCh = Append(@, tasks.worker.resp),
                                       !.late = tasks.callers[tasks.worker.cmd.respCh].ctxDone]]
    /\ UNCHANGED << ob, view, call, ret, pre, hist, log, issued, svc >>

\* the dispatcher returns: defer close(s.externalEvents), defer s.wg.Done()
DispatcherExits ==
    /\ tasks' = [tasks EXCEPT
                    !.dispatcher.pc = "done",
                    !.panic = IF svc.externalClosed THEN "close of closed channel" ELSE @]
    /\ svc' = [svc EXCEPT !.externalClosed = TRUE, !.wg = @ - 1]

\* Service.runEventDispatcher: the select of its loop, and the event taken
\* from internalEvents applied to the view
DispatcherSelect ==
    /\ tasks.dispatcher.pc = "select"
    /\ \/ /\ svc.closed
          /\ DispatcherExits
          /\ UNCHANGED view
       \/ /\ svc.internalEvents # << >>
          /\ view' = Apply(view, Head(svc.internalEvents).ev)
          /\ svc' = [svc EXCEPT !.internalEvents = Tail(@)]
          /\ tasks' = [tasks EXCEPT
                          !.dispatcher = [pc |-> "send", ev |-> Head(svc.internalEvents)],
                          !.applied = Append(@, Head(svc.internalEvents).n)]
    /\ UNCHANGED << ob, call, ret, pre, hist, log, issued >>

\* the send to externalEvents without the default case: it waits for room
DispatcherSend_Waits ==
    /\ tasks.dispatcher.pc = "send"
    /\ \/ /\ Len(svc.externalEvents) < svc.cfg.ExternalEventBuffer
          /\ svc' = [svc EXCEPT !.externalEvents = Append(@, tasks.dispatcher.ev)]
          /\ tasks' = [tasks EXCEPT !.dispatcher.pc = "select"]
       \/ /\ svc.closed
          /\ DispatcherExits
    /\ UNCHANGED << ob, view, call, ret, pre, hist, log, issued >>

\* the send to externalEvents counting every event, sent or not
DispatcherSend_CountsAll ==
    /\ tasks.dispatcher.pc = "send"
    /\ \/ /\ Len(svc.externalEvents) < svc.cfg.ExternalEventBuffer
          /\ svc' = [svc EXCEPT !.externalEvents = Append(@, tasks.dispatcher.ev),
                                !.droppedExternal = @ + 1]
          /\ tasks' = [tasks EXCEPT !.dispatcher.pc = "select"]
       \/ /\ svc.cfg.DropExternalEvents
          /\ ~(Len(svc.externalEvents) < svc.cfg.ExternalEventBuffer)
          /\ svc' = [svc EXCEPT !.droppedExternal = @ + 1]
          /\ tasks' = [tasks EXCEPT !.dispatcher.pc = "select"]
       \/ /\ ~svc.cfg.DropExternalEvents
          /\ svc.closed
          /\ DispatcherExits
    /\ UNCHANGED << ob, view, call, ret, pre, hist, log, issued >>

\* Service.runEventDispatcher: the send to externalEvents
DispatcherSend ==
    /\ tasks.dispatcher.pc = "send"
    /\ \/ /\ Len(svc.externalEvents) < svc.cfg.ExternalEventBuffer
          /\ svc' = [svc EXCEPT !.externalEvents = Append(@, tasks.dispatcher.ev)]
          /\ tasks' = [tasks EXCEPT
                          !.dispatcher.pc = "select",
                          !.panic = IF svc.externalClosed
                                    THEN "send on closed channel" ELSE @]
       \/ /\ svc.cfg.DropExternalEvents
          /\ ~(Len(svc.externalEvents) < svc.cfg.ExternalEventBuffer)
          /\ svc' = [svc EXCEPT !.droppedExternal = @ + 1]
          /\ tasks' = [tasks EXCEPT !.dispatcher.pc = "select"]
       \/ /\ ~svc.cfg.DropExternalEvents
          /\ svc.closed
          /\ DispatcherExits
    /\ UNCHANGED << ob, view, call, ret, pre, hist, log, issued >>

\* a subscriber receives from Events()
Consume ==
    /\ svc.externalEvents # << >>
    /\ svc' = [svc EXCEPT !.externalEvents = Tail(@)]
    /\ tasks' = [tasks EXCEPT !.received = Append(@, Head(svc.externalEvents))]
    /\ UNCHANGED << ob, view, call, ret, pre, hist, log, issued >>

\* close(s.closed): every caller parked in a select returns by <-s.closed
Closes(k) ==
    /\ svc' = [svc EXCEPT !.closed = TRUE, !.closeOnce = TRUE, !.sendq = << >>]
    /\ tasks' = [tasks EXCEPT
                    !.closers[k] = "waiting",
                    !.panic = IF svc.closed THEN "close of closed channel" ELSE @,
                    !.callers = [c \in 1..SvcCallers |->
                                    IF @[c].pc \in {"sending", "parked"}
                                    THEN Canceled(@[c], "closed") ELSE @[c]]]

\* Service.Close without the sync.Once: every call closes s.closed
CloseCall_NoOnce(k) ==
    /\ tasks.closers[k] = "idle"
    /\ \A j \in 1..(k - 1) : tasks.closers[j] # "idle"
    /\ Closes(k)
    /\ UNCHANGED << ob, view, call, ret, pre, hist, log, issued >>

\* Service.Close: closeOnce.Do(close(s.closed)) ...  The callers of Close
\* are numbered in the order of their calls.
CloseCall(k) ==
    /\ tasks.closers[k] = "idle"
    /\ \A j \in 1..(k - 1) : tasks.closers[j] # "idle"
    /\ IF svc.closeOnce
       THEN /\ tasks' = [tasks EXCEPT !.closers[k] = "waiting"]
            /\ UNCHANGED svc
       ELSE Closes(k)
    /\ UNCHANGED << ob, view, call, ret, pre, hist, log, issued >>

\* ... and s.wg.Wait() returns
CloseReturn(k) ==
    /\ tasks.closers[k] = "waiting"
    /\ svc.wg = 0
    /\ tasks' = [tasks EXCEPT !.closers[k] = "returned"]
    /\ UNCHANGED << ob, view, call, ret, pre, hist, log, issued, svc >>

NextSvc ==
    \/ \E c \in 1..SvcCallers : CallEnqueue(c) \/ CtxFire(c) \/ CallAwait(c)
    \/ WorkerSelect \/ WorkerEmit \/ WorkerReply
    \/ DispatcherSelect \/ DispatcherSend
    \/ Consume
    \/ CloseCall(1) \/ CloseReturn(1)

SpecSvc == InitSvc /\ [][NextSvc]_vars

\* the service with one caller of its commands and several callers of Close
NextIdem ==
    \/ CallEnqueue(1) \/ CtxFire(1) \/ CallAwait(1)
    \/ WorkerSelect \/ WorkerEmit \/ WorkerReply
    \/ DispatcherSelect \/ DispatcherSend
    \/ Consume
    \/ \E k \in 1..SvcClosers : CloseCall(k) \/ CloseReturn(k)

SpecIdem == InitSvc /\ [][NextIdem]_vars

\* the service closed at any moment by one call of Close; every goroutine
\* that can take a step other than receiving a command takes it
NextClose ==
    \/ \E c \in 1..SvcCallers : CallEnqueue(c) \/ CallAwait(c)
    \/ WorkerSelect \/ WorkerEmit \/ WorkerReply
    \/ DispatcherSelect \/ DispatcherSend
    \/ Consume
    \/ CloseCall(1) \/ CloseReturn(1)

FairClose ==
    /\ WF_vars(WorkerReturns) /\ WF_vars(WorkerEmit) /\ WF_vars(WorkerReply)
    /\ WF_vars(DispatcherSelect) /\ WF_vars(DispatcherSend)
    /\ WF_vars(CloseReturn(1))
    /\ \A c \in 1..SvcCallers : WF_vars(CallAwait(c))

SpecClose == InitSvc /\ [][NextClose]_vars /\ FairClose

\* the service with DropExternalEvents set, never closed; the worker and
\* the dispatcher, once able to take a step, take it
InitDrop == InitSvc /\ svc.cfg.DropExternalEvents

NextOpen ==
    \/ \E c \in 1..SvcCallers : CallEnqueue(c) \/ CtxFire(c) \/ CallAwait(c)
    \/ WorkerReceives \/ WorkerEmit \/ WorkerReply
    \/ DispatcherSelect \/ DispatcherSend
    \/ Consume

FairOpen ==
    /\ WF_vars(WorkerEmit) /\ WF_vars(WorkerReply)
    /\ WF_vars(DispatcherSelect) /\ WF_vars(DispatcherSend)

SpecOpen == InitDrop /\ [][NextOpen]_vars /\ FairOpen

(***************************************************************************)
(* A trade tape on its own: made with any capacity, then appended to.      *)
(* call keeps the capacity asked for and log the trades appended.          *)
(***************************************************************************)
InitTape ==
    /\ \E capacity \in (-1)..TapeMaxCapacity :
          /\ view = NewBookView(capacity)
          /\ call = [op |-> "NewTradeTape", capacity |-> capacity]
    /\ ob = newOrderBook
    /\ ret = [report |-> ZeroSubmitReport, events |-> << >>, err |-> ErrNone]
    /\ pre = [ob |-> newOrderBook, hist |-> NoHist]
    /\ hist = NoHist
    /\ log = << >>
    /\ issued = EmptyMap
    /\ svc = NoService
    /\ tasks = NoTasks

\* TradeTape.Append of one more trade
TapeAppends ==
    /\ Len(log) < TapeMaxAppends
    /\ \E price \in 1..TapeMaxPrice :
          /\ view' = [view EXCEPT
                         !.tape = TapeAppend(@, TradeEvent(price, 1, SideBuy, 1, 2, 1, 1, 1))]
          /\ log' = Append(log, TradeEvent(price, 1, SideBuy, 1, 2, 1, 1, 1))
    /\ UNCHANGED << ob, call, ret, pre, hist, issued, svc, tasks >>

NextTape == TapeAppends

SpecTape == InitTape /\ [][NextTape]_vars

(***************************************************************************)
(* MarketService (market/service/service.go): one orderbook Service per    *)
(* ticker, one forwarder goroutine per book, a last-trade view and one     *)
(* consolidated event channel.  svc is the MarketService, tasks its        *)
(* forwarders, the callers of Close and the subscriber, call and ret the   *)
(* last call of its API and what it returned.  A child Service is taken at *)
(* the grain of its commands: a command runs from call to return in one    *)
(* step and leaves its events in the child's internal channel; the child's *)
(* dispatcher applies them to the child's view and publishes them, one at  *)
(* a time.  Every event carries, beside it, the ticker whose core made it  *)
(* (src), which the program never reads.                                   *)
(***************************************************************************)
ErrUnknownTicker == "unknown ticker"

\* orderbookservice.NewService(cfg.Book)
NewBook ==
    [ob |-> newOrderBook, view |-> NewBookView(TapeCapacity), idGen |-> 0,
     internalEvents |-> << >>, externalEvents |-> << >>,
     externalClosed |-> FALSE, closed |-> FALSE]

NewMarketService(drop) ==
    [cfg |-> [MarketEventBuffer |-> MarketEventBuffer, DropMarketEvents |-> drop],
     books |-> [t \in 1..MktTickers |-> NewBook],
     lastTrade |-> EmptyMap,
     externalEvents |-> << >>, externalClosed |-> FALSE, droppedEvents |-> 0,
     closed |-> FALSE, closeOnce |-> FALSE, wg |-> MktTickers, calls |-> 0]

InitMkt ==
    /\ \E drop \in BOOLEAN : svc = NewMarketService(drop)
    /\ tasks = [forwarders |-> [t \in 1..MktTickers |-> [pc |-> "select", ev |-> NoEvent]],
                closers |-> [k \in 1..MktClosers |-> "idle"],
                panic |-> "none",
                received |-> << >>]
    /\ call = NoCall
    /\ ret = [report |-> ZeroSubmitReport, value |-> << >>, err |-> ErrNone]
    /\ ob = newOrderBook
    /\ view = NewBookView(TapeCapacity)
    /\ pre = [ob |-> newOrderBook, hist |-> NoHist]
    /\ hist = NoHist
    /\ log = << >>
    /\ issued = EmptyMap

\* the commands a caller of the MarketService may send
MktCommands ==
    [typ : {cmdSubmitLimit}, userID : 1..MaxUser, side : {SideBuy, SideSell},
     price : 1..SvcMaxPrice, size : 1..SvcMaxSize, id : {0}, respCh : {0}]
    \cup
    [typ : {cmdSubmitMarket}, userID : 1..MaxUser, side : {SideBuy, SideSell},
     price : {0}, size : 1..SvcMaxSize, id : {0}, respCh : {0}]
    \cup
    [typ : {cmdCancel}, userID : {0}, side : {SideBuy}, price : {0}, size : {0},
     id : 1..MktMaxId, respCh : {0}]

\* a child after its worker ran cmd with the core's result r, and what the
\* call returns
BookRan(b, cmd, r, src) ==
    [book |-> [b EXCEPT
                  !.ob = r.ob,
                  !.idGen = IF cmd.typ = cmdCancel THEN @ ELSE @ + 1,
                  !.internalEvents =
                      @ \o [i \in 1..Len(r.events) |-> [src |-> src, ev |-> r.events[i]]]],
     report |-> r.report, err |-> r.err]

\* Service.SubmitLimit, SubmitMarket, Cancel of a child, from call to return
BookCall(b, cmd, src) ==
    IF b.closed
    THEN [book |-> b, report |-> ZeroSubmitReport, err |-> ErrCanceled]
    ELSE BookRan(b, cmd, coreCall(b.ob, cmd, b.idGen + 1, 1), src)

\* return book.SubmitLimit(...): the child's result is the call's result
Routed(tid, r, n) ==
    /\ ret' = [report |-> r.report, value |-> << >>, err |-> r.err]
    /\ svc' = [svc EXCEPT !.calls = n, !.books[tid] = r.book]

\* an unknown ticker sent to the first book
Unknown_ToFirst(cmd, n) == Routed(1, BookCall(svc.books[1], cmd, 1), n)

\* if !ok { return core.SubmitReport{}, ErrUnknownTicker }
Unknown(cmd, n) ==
    /\ ret' = [report |-> ZeroSubmitReport, value |-> << >>, err |-> ErrUnknownTicker]
    /\ svc' = [svc EXCEPT !.calls = n]

\* MarketService.SubmitLimit, SubmitMarket, Cancel
MktCommand ==
    /\ svc.calls < MktMaxCalls
    /\ \E tid \in 1..(MktTickers + 1), cmd \in MktCommands :
          /\ call' = [op |-> "command", tid |-> tid, cmd |-> cmd, n |-> svc.calls + 1]
          /\ IF tid \in DOMAIN svc.books
             THEN Routed(tid, BookCall(svc.books[tid], cmd, tid), svc.calls + 1)
             ELSE Unknown(cmd, svc.calls + 1)
    /\ UNCHANGED << ob, view, pre, hist, log, issued, tasks >>

\* what a query of a child's view returns
BookQuery(b, q) ==
    IF q.op = "GetLevels" THEN Levels(b.view, q.side)
    ELSE IF q.op = "GetOrders" THEN Orders(b.view, q.side)
    ELSE TradesLast(b.view, q.n)

\* MarketService.GetLevels, GetOrders, GetTradesLast
MktQuery ==
    /\ svc.calls < MktMaxCalls
    /\ \E tid \in 1..(MktTickers + 1),
          q \in [op : {"GetLevels", "GetOrders"}, side : {SideBuy, SideSell}, n : {0}]
                \cup [op : {"GetTradesLast"}, side : {SideBuy}, n : 0..1] :
          /\ call' = [op |-> "query", tid |-> tid, cmd |-> q, n |-> svc.calls + 1]
          /\ ret' = IF tid \in DOMAIN svc.books
                    THEN [report |-> ZeroSubmitReport,
                          value |-> BookQuery(svc.books[tid], q), err |-> ErrNone]
                    ELSE [report |-> ZeroSubmitReport, value |-> << >>,
                          err |-> ErrUnknownTicker]
          /\ svc' = [svc EXCEPT !.calls = @ + 1]
    /\ UNCHANGED << ob, view, pre, hist, log, issued, tasks >>

\* a dispatcher that sends the event without applying it to the view
Dispatched_SendsOnly(b) ==
    [b EXCEPT !.internalEvents = Tail(@),
              !.externalEvents = IF Len(@) < ExternalEventBuffer
                                 THEN Append(@, Head(b.internalEvents)) ELSE @]

\* a child after its dispatcher took one event: applied to the child's view
\* and sent on the child's external channel, or dropped when that is full
Dispatched(b) ==
    [b EXCEPT !.view = Apply(@, Head(b.internalEvents).ev),
              !.internalEvents = Tail(@),
              !.externalEvents = IF Len(@) < ExternalEventBuffer
                                 THEN Append(@, Head(b.internalEvents)) ELSE @]

\* the dispatcher of the child of ticker t
BookDispatch(t) ==
    /\ ~svc.books[t].closed
    /\ svc.books[t].internalEvents # << >>
    /\ svc' = [svc EXCEPT !.books[t] = Dispatched(@)]
    /\ UNCHANGED << ob, view, call, ret, pre, hist, log, issued, tasks >>

\* MarketView.Apply that records a trade as the last trade of every ticker
MarketViewApply_AllTickers(lastTrade, tid, ev) ==
    IF ev.type = "Trade" THEN [t \in 1..MktTickers |-> ev] ELSE lastTrade

\* MarketView.Apply
MarketViewApply(lastTrade, tid, ev) ==
    IF ev.type = "Trade" THEN MapPut(lastTrade, tid, ev) ELSE lastTrade

\* every event tagged with the first ticker
MarketEventOf_TagsFirst(tid, e) == [Ticker |-> 1, Event |-> e.ev, src |-> e.src]

\* marketview.MarketEvent{Ticker: tid, Event: ev}
MarketEventOf(tid, e) == [Ticker |-> tid, Event |-> e.ev, src |-> e.src]

\* the forwarder of ticker t returns: defer s.wg.Done()
ForwarderExits(t) ==
    /\ tasks' = [tasks EXCEPT !.forwarders[t].pc = "done"]
    /\ svc' = [svc EXCEPT !.wg = @ - 1]

\* runBookEventForwarder: the select of its loop, and mview.Apply
ForwarderSelect(t) ==
    /\ tasks.forwarders[t].pc = "select"
    /\ \/ svc.closed /\ ForwarderExits(t)
       \/ /\ svc.books[t].externalEvents = << >>
          /\ svc.books[t].externalClosed
          /\ ForwarderExits(t)
       \/ /\ svc.books[t].externalEvents # << >>
          /\ svc' = [svc EXCEPT
                        !.lastTrade = MarketViewApply(@, t,
                                          Head(svc.books[t].externalEvents).ev),
                        !.books[t].externalEvents = Tail(@)]
          /\ tasks' = [tasks EXCEPT
                          !.forwarders[t] =
                              [pc |-> "send",
                               ev |-> MarketEventOf(t, Head(svc.books[t].externalEvents))]]
    /\ UNCHANGED << ob, view, call, ret, pre, hist, log, issued >>

\* runBookEventForwarder: the send to s.externalEvents
ForwarderSend(t) ==
    /\ tasks.forwarders[t].pc = "send"
    /\ \/ /\ Len(svc.externalEvents) < svc.cfg.MarketEventBuffer
          /\ svc' = [svc EXCEPT !.externalEvents = Append(@, tasks.forwarders[t].ev)]
          /\ tasks' = [tasks EXCEPT
                          !.forwarders[t].pc = "select",
                          !.panic = IF svc.externalClosed
                                    THEN "send on closed channel" ELSE @]
       \/ /\ svc.cfg.DropMarketEvents
          /\ ~(Len(svc.externalEvents) < svc.cfg.MarketEventBuffer)
          /\ svc' = [svc EXCEPT !.droppedEvents = @ + 1]
          /\ tasks' = [tasks EXCEPT !.forwarders[t].pc = "select"]
       \/ /\ ~svc.cfg.DropMarketEvents
          /\ svc.closed
          /\ ForwarderExits(t)
    /\ UNCHANGED << ob, view, call, ret, pre, hist, log, issued >>

\* a subscriber receives from MarketService.Events()
MktConsume ==
    /\ svc.externalEvents # << >>
    /\ svc' = [svc EXCEPT !.externalEvents = Tail(@)]
    /\ tasks' = [tasks EXCEPT !.received = Append(@, Head(svc.externalEvents))]
    /\ UNCHANGED << ob, view, call, ret, pre, hist, log, issued >>

\* book.Close() of a child: its goroutines have exited and its dispatcher
\* has closed the child's external channel
BookClosed(b) == [b EXCEPT !.closed = TRUE, !.externalClosed = TRUE]

\* MarketService.Close: closeOnce.Do(close(s.closed)), then book.Close()
\* for every book ...  The callers of Close are numbered in the order of
\* their calls.
MktCloseCall(k) ==
    /\ tasks.closers[k] = "idle"
    /\ \A j \in 1..(k - 1) : tasks.closers[j] # "idle"
    /\ svc' = [svc EXCEPT !.closed = TRUE, !.closeOnce = TRUE,
                          !.books = [t \in 1..MktTickers |-> BookClosed(@[t])]]
    /\ tasks' = [tasks EXCEPT !.closers[k] = "waiting"]
    /\ UNCHANGED << ob, view, call, ret, pre, hist, log, issued >>

\* ... s.wg.Wait() returns, then close(s.externalEvents): closing a closed
\* channel panics
MktCloseReturn(k) ==
    /\ tasks.closers[k] = "waiting"
    /\ svc.wg = 0
    /\ svc' = [svc EXCEPT !.externalClosed = TRUE]
    /\ tasks' = [tasks EXCEPT
                    !.closers[k] = IF svc.externalClosed THEN "panicked" ELSE "returned",
                    !.panic = IF svc.externalClosed THEN "close of closed channel" ELSE @]
    /\ UNCHANGED << ob, view, call, ret, pre, hist, log, issued >>

NextMkt ==
    \/ MktCommand \/ MktQuery
    \/ \E t \in 1..MktTickers : BookDispatch(t) \/ ForwarderSelect(t) \/ ForwarderSend(t)
    \/ MktConsume
    \/ \E k \in 1..MktClosers : MktCloseCall(k) \/ MktCloseReturn(k)

SpecMkt == InitMkt /\ [][NextMkt]_vars

(***************************************************************************)
(* The MarketService, made from any list of tickers, closed at any moment  *)
(* by one call of Close, with nobody reading the consolidated stream.  A   *)
(* forwarder that can take a step takes it, and so does the caller of      *)
(* Close once wg.Wait() can return.                                        *)
(***************************************************************************)
\* the lists of tickers given to the constructor: every id of 1..MktTickers
\* at least once, in any order, an id possibly named again
TickerLists ==
    {l \in UNION {[1..n -> 1..MktTickers] : n \in MktTickers..MktMaxTickerList} :
        {l[i] : i \in 1..Len(l)} = 1..MktTickers}

\* NewMarketService(tickers, cfg): one orderbook service is made for each
\* element of the list and stored under its id, so that of two services
\* made for one id the map keeps the later one; orphans are the services
\* made and no longer in the map.  One forwarder is started for each entry
\* of the map.
NewMarketServiceOf(tickers, drop) ==
    [cfg |-> [MarketEventBuffer |-> MarketEventBuffer, DropMarketEvents |-> drop],
     books |-> [t \in {tickers[i] : i \in 1..Len(tickers)} |-> NewBook],
     orphans |-> [i \in 1..(Len(tickers)
                              - Cardinality({tickers[j] : j \in 1..Len(tickers)}))
                    |-> NewBook],
     lastTrade |-> EmptyMap,
     externalEvents |-> << >>, externalClosed |-> FALSE, droppedEvents |-> 0,
     closed |-> FALSE, closeOnce |-> FALSE,
     wg |-> Cardinality({tickers[i] : i \in 1..Len(tickers)}), calls |-> 0]

InitMktClose ==
    /\ \E tickers \in TickerLists, drop \in BOOLEAN :
          svc = NewMarketServiceOf(tickers, drop)
    /\ tasks = [forwarders |-> [t \in 1..MktTickers |-> [pc |-> "select", ev |-> NoEvent]],
                closers |-> [k \in 1..MktClosers |-> "idle"],
                panic |-> "none",
                received |-> << >>]
    /\ call = NoCall
    /\ ret = [report |-> ZeroSubmitReport, value |-> << >>, err |-> ErrNone]
    /\ ob = newOrderBook
    /\ view = NewBookView(TapeCapacity)
    /\ pre = [ob |-> newOrderBook, hist |-> NoHist]
    /\ hist = NoHist
    /\ log = << >>
    /\ issued = EmptyMap

NextMktClose ==
    \/ MktCommand
    \/ \E t \in 1..MktTickers : BookDispatch(t) \/ ForwarderSelect(t) \/ ForwarderSend(t)
    \/ MktCloseCall(1) \/ MktCloseReturn(1)

FairMktClose ==
    /\ \A t \in 1..MktTickers : WF_vars(ForwarderSelect(t)) /\ WF_vars(ForwarderSend(t))
    /\ WF_vars(MktCloseReturn(1))

SpecMktClose == InitMktClose /\ [][NextMktClose]_vars /\ FairMktClose

(***************************************************************************)
(* The MarketService with a caller of Snapshot.  Beside the service:       *)
(*   log[t]   the events the core of ticker t has returned, in order       *)
(*   hist[t]  the events the dispatcher of ticker t has sent on the        *)
(*            child's external channel, in order                           *)
(*   tasks.snapshot  the caller of Snapshot: where it is in                *)
(*            SnapshotWithBooks (pc, tid, bp), the snapshot it builds or   *)
(*            has returned (snap), the Trade events the last_px of snap    *)
(*            and of the snapshot returned before it were taken from       *)
(*            (last, prevLast), and the number of snapshots returned       *)
(* MarketView.mu is read-locked while tasks.snapshot.pc is not "idle".     *)
(***************************************************************************)
ZeroBestPrices ==
    [BidPrice |-> 0, BidSize |-> 0, BidOK |-> FALSE,
     AskPrice |-> 0, AskSize |-> 0, AskOK |-> FALSE,
     LastPrice |-> 0, LastTime |-> 0, HasLast |-> FALSE]

InitLogged(drops) ==
    /\ \E drop \in drops : svc = NewMarketService(drop)
    /\ tasks = [forwarders |-> [t \in 1..MktTickers |-> [pc |-> "select", ev |-> NoEvent]],
                closers |-> [k \in 1..MktClosers |-> "idle"],
                panic |-> "none",
                received |-> << >>,
                snapshot |-> [pc |-> "idle", tid |-> 0, bp |-> ZeroBestPrices,
                              snap |-> EmptyMap,
                              last |-> EmptyMap, prevLast |-> EmptyMap,
                              returned |-> 0]]
    /\ call = NoCall
    /\ ret = [report |-> ZeroSubmitReport, value |-> << >>, err |-> ErrNone]
    /\ ob = newOrderBook
    /\ view = NewBookView(TapeCapacity)
    /\ pre = [ob |-> newOrderBook, hist |-> NoHist]
    /\ hist = [t \in 1..MktTickers |-> << >>]
    /\ log = [t \in 1..MktTickers |-> << >>]
    /\ issued = EmptyMap

\* nobody reads the consolidated stream, and DropMarketEvents is set
InitSnap == InitLogged({TRUE})

SnapCommands ==
    [typ : {cmdSubmitLimit}, userID : 1..MaxUser, side : {SideBuy, SideSell},
     price : 1..SnapMaxPrice, size : 1..SnapMaxSize, id : {0}, respCh : {0}]
    \cup
    [typ : {cmdSubmitMarket}, userID : 1..MaxUser, side : {SideBuy, SideSell},
     price : {0}, size : 1..SnapMaxSize, id : {0}, respCh : {0}]
    \cup
    [typ : {cmdCancel}, userID : {0}, side : {SideBuy}, price : {0}, size : {0},
     id : 1..MktMaxId, respCh : {0}]

\* the events a child's worker has put on internalEvents between b and c
EmittedBetween(b, c) ==
    [i \in 1..(Len(c.internalEvents) - Len(b.internalEvents)) |->
        c.internalEvents[Len(b.internalEvents) + i].ev]

\* MarketService.SubmitLimit, SubmitMarket, Cancel, with the child's events
\* kept in log; what the call returns is not kept
LoggedCommand(cmds, maxCalls) ==
    /\ svc.calls < maxCalls
    /\ \E tid \in 1..(MktTickers + 1), cmd \in cmds :
          IF tid \in DOMAIN svc.books
          THEN /\ svc' = [svc EXCEPT
                            !.calls = @ + 1,
                            !.books[tid] = BookCall(@, cmd, tid).book]
               /\ log' = [log EXCEPT
                             ![tid] = @ \o EmittedBetween(svc.books[tid],
                                                          svc'.books[tid])]
          ELSE /\ svc' = [svc EXCEPT !.calls = @ + 1]
               /\ UNCHANGED log
    /\ UNCHANGED << ob, view, call, ret, pre, hist, issued, tasks >>

SnapCommand == LoggedCommand(SnapCommands, SnapMaxCalls)

\* the dispatcher of the child of ticker t, with what it sends kept in hist
LoggedDispatch(t) ==
    /\ ~svc.books[t].closed
    /\ svc.books[t].internalEvents # << >>
    /\ svc' = [svc EXCEPT !.books[t] = Dispatched(@)]
    /\ hist' = [hist EXCEPT
                   ![t] = IF Len(svc.books[t].externalEvents) < ExternalEventBuffer
                          THEN Append(@, Head(svc.books[t].internalEvents).ev)
                          ELSE @]
    /\ UNCHANGED << ob, view, call, ret, pre, log, issued, tasks >>

\* runBookEventForwarder: the select of its loop
SnapForwarderSelect(t) ==
    /\ tasks.forwarders[t].pc = "select"
    /\ \/ svc.closed /\ ForwarderExits(t)
       \/ /\ svc.books[t].externalEvents = << >>
          /\ svc.books[t].externalClosed
          /\ ForwarderExits(t)
       \/ /\ svc.books[t].externalEvents # << >>
          /\ svc' = [svc EXCEPT !.books[t].externalEvents = Tail(@)]
          /\ tasks' = [tasks EXCEPT
                          !.forwarders[t] =
                              [pc |-> "apply",
                               ev |-> MarketEventOf(t, Head(svc.books[t].externalEvents))]]
    /\ UNCHANGED << ob, view, call, ret, pre, hist, log, issued >>

\* s.mview.Apply(tid, ev, book): v.mu.Lock() waits for a reader to unlock
SnapForwarderApply(t) ==
    /\ tasks.forwarders[t].pc = "apply"
    /\ tasks.snapshot.pc = "idle"
    /\ svc' = [svc EXCEPT
                  !.lastTrade = MarketViewApply(@, t, tasks.forwarders[t].ev.Event)]
    /\ tasks' = [tasks EXCEPT !.forwarders[t].pc = "send"]
    /\ UNCHANGED << ob, view, call, ret, pre, hist, log, issued >>

\* bids[0] taken also from an empty list of levels
BestBid_AlwaysOK(bp, bids) ==
    [bp EXCEPT !.BidPrice = IF Len(bids) > 0 THEN bids[1].Price ELSE 0,
               !.BidSize = IF Len(bids) > 0 THEN bids[1].Size ELSE 0,
               !.BidOK = TRUE]

\* SnapshotWithBooks: bids := book.GetLevels(core.SideBuy) into bp
BestBid(bp, bids) ==
    IF Len(bids) > 0
    THEN [bp EXCEPT !.BidPrice = bids[1].Price, !.BidSize = bids[1].Size,
                    !.BidOK = TRUE]
    ELSE bp

\* SnapshotWithBooks: asks := book.GetLevels(core.SideSell) into bp
BestAsk(bp, asks) ==
    IF Len(asks) > 0
    THEN [bp EXCEPT !.AskPrice = asks[1].Price, !.AskSize = asks[1].Size,
                    !.AskOK = TRUE]
    ELSE bp

\* SnapshotWithBooks: v.lastTrade[tid] into bp
WithLast(bp, lastTrade, tid) ==
    IF tid \in DOMAIN lastTrade
    THEN [bp EXCEPT !.LastPrice = lastTrade[tid].Price,
                    !.LastTime = lastTrade[tid].Time, !.HasLast = TRUE]
    ELSE bp

\* MarketService.Snapshot is called: v.mu.RLock(), and the range over books
\* starts with any of them
SnapshotBegin ==
    /\ tasks.snapshot.pc = "idle"
    /\ tasks.snapshot.returned < SnapMaxSnapshots
    /\ \E tid \in DOMAIN svc.books :
          tasks' = [tasks EXCEPT
                       !.snapshot = [@ EXCEPT !.pc = "bids", !.tid = tid,
                                              !.bp = ZeroBestPrices,
                                              !.snap = EmptyMap,
                                              !.last = EmptyMap,
                                              !.prevLast = tasks.snapshot.last]]
    /\ UNCHANGED << ob, view, call, ret, pre, hist, log, issued, svc >>

\* bids := book.GetLevels(core.SideBuy) of the ticker at hand
SnapshotBids ==
    /\ tasks.snapshot.pc = "bids"
    /\ tasks' = [tasks EXCEPT
                    !.snapshot.pc = "asks",
                    !.snapshot.bp =
                        BestBid(ZeroBestPrices,
                                Levels(svc.books[tasks.snapshot.tid].view, SideBuy))]
    /\ UNCHANGED << ob, view, call, ret, pre, hist, log, issued, svc >>

\* the snapshot after the entry of the ticker at hand is stored: the range
\* goes on with any ticker not yet visited (next), or the snapshot is
\* returned and the lock released (next = 0)
SnapshotStored(sn, lastTrade, asks, next) ==
    [sn EXCEPT
        !.snap = MapPut(@, sn.tid, WithLast(BestAsk(sn.bp, asks), lastTrade, sn.tid)),
        !.last = IF sn.tid \in DOMAIN lastTrade
                 THEN MapPut(@, sn.tid, lastTrade[sn.tid]) ELSE @,
        !.pc = IF next = 0 THEN "idle" ELSE "bids",
        !.tid = next,
        !.returned = IF next = 0 THEN @ + 1 ELSE @]

\* asks := book.GetLevels(core.SideSell), v.lastTrade[tid],
\* snap.ByTicker[tid] = bp
SnapshotAsks ==
    /\ tasks.snapshot.pc = "asks"
    /\ \E next \in IF DOMAIN svc.books \subseteq
                         DOMAIN tasks.snapshot.snap \cup {tasks.snapshot.tid}
                   THEN {0}
                   ELSE DOMAIN svc.books \
                            (DOMAIN tasks.snapshot.snap \cup {tasks.snapshot.tid}) :
          tasks' = [tasks EXCEPT
                       !.snapshot =
                           SnapshotStored(@, svc.lastTrade,
                               Levels(svc.books[tasks.snapshot.tid].view, SideSell),
                               next)]
    /\ UNCHANGED << ob, view, call, ret, pre, hist, log, issued, svc >>

NextSnap ==
    \/ SnapCommand
    \/ \E t \in 1..MktTickers :
          \/ BookDispatch(t) \/ SnapForwarderSelect(t)
          \/ SnapForwarderApply(t) \/ ForwarderSend(t)
    \/ SnapshotBegin \/ SnapshotBids \/ SnapshotAsks

SpecSnap == InitSnap /\ [][NextSnap]_vars

(***************************************************************************)
(* The MarketService with a subscriber of its consolidated stream, either  *)
(* drop policy, closed at any moment by one call of Close; log and hist    *)
(* are kept as above.                                                      *)
(***************************************************************************)
InitStream == InitLogged(BOOLEAN)

StreamCommand == LoggedCommand(MktCommands, MktMaxCalls)

NextStream ==
    \/ StreamCommand
    \/ \E t \in 1..MktTickers : LoggedDispatch(t) \/ ForwarderSelect(t) \/ ForwarderSend(t)
    \/ MktConsume
    \/ MktCloseCall(1) \/ MktCloseReturn(1)

SpecStream == InitStream /\ [][NextStream]_vars

(***************************************************************************)
(* Readings of the book used by the properties.                            *)
(***************************************************************************)
\* the ids linked in the level at price p, from head along next
RECURSIVE Walk(_, _, _)
Walk(nodes, o, fuel) ==
    IF o = nil \/ fuel = 0 \/ o \notin DOMAIN nodes THEN << >>
    ELSE << o >> \o Walk(nodes, nodes[o].next, fuel - 1)

Fifo(book, isBid, p) ==
    IF p \in DOMAIN SideOf(book, isBid).levels
    THEN Walk(book.nodes, SideOf(book, isBid).levels[p].head, MaxId + 1)
    ELSE << >>

LevelPrices(book, isBid) == DOMAIN SideOf(book, isBid).levels

Accepted == call # NoCall /\ ret.err = ErrNone
ObservedSubmit == call.op \in {"SubmitLimit", "SubmitMarket"}
AcceptedSubmit == ObservedSubmit /\ ret.err = ErrNone
Trades(evs) == SelectSeq(evs, LAMBDA e : e.type = "Trade")

RECURSIVE SumSizes(_)
SumSizes(q) == IF q = << >> THEN 0 ELSE Head(q).Size + SumSizes(Tail(q))

(***************************************************************************)
(* C1.  No crossed book: after every call on the core, accepted or         *)
(* rejected, if a bid level and an ask level exist then the best bid price *)
(* is strictly below the best ask price (and so is every bid level below   *)
(* every ask level).                                                       *)
(***************************************************************************)
C1_NoCrossedBook ==
    /\ (bestLevel(ob.bids) # nil /\ bestLevel(ob.asks) # nil)
            => bestLevel(ob.bids) < bestLevel(ob.asks)
    /\ \A b \in LevelPrices(ob, TRUE), a \in LevelPrices(ob, FALSE) : b < a

\* a limit order crossed, filled makers, and its remainder rested opposite
\* a level that is still there
C1_Witness ==
    /\ call.op = "SubmitLimit" /\ ret.err = ErrNone
    /\ Len(ret.report.Fills) >= 1 /\ ret.report.Rested
    /\ bestLevel(ob.bids) # nil /\ bestLevel(ob.asks) # nil

\* the elements of a sequence
Range(q) == {q[i] : i \in 1..Len(q)}

\* the core's levels of one side as the view reports levels
CoreLevels(book, side) ==
    {[Price |-> p, Size |-> sideFor(book, side).levels[p].totalVolume] :
        p \in DOMAIN sideFor(book, side).levels}

\* the core's resident orders of one side as the view reports orders
CoreOrders(book, side) ==
    {[ID |-> id, UserID |-> book.nodes[id].userID, Side |-> book.nodes[id].side,
      Price |-> book.nodes[id].price, Size |-> book.nodes[id].size,
      Time |-> book.nodes[id].time] :
        id \in {x \in book.orders : book.nodes[x].side = side}}

(***************************************************************************)
(* C2.  The view equals the core: once every event of every command so far *)
(* has been applied in order, Levels(side) lists exactly the core's        *)
(* (price, totalVolume) of each level of that side, Orders(side) lists     *)
(* exactly the core's resident orders of that side with their remaining    *)
(* sizes, and the newest tape entry is the last Trade the core emitted     *)
(* (the tape is empty when it emitted none).                               *)
(***************************************************************************)
C2_ViewEqualsCore ==
    /\ \A side \in {SideBuy, SideSell} :
          /\ Range(Levels(view, side)) = CoreLevels(ob, side)
          /\ Len(Levels(view, side)) = Cardinality(CoreLevels(ob, side))
          /\ Range(Orders(view, side)) = CoreOrders(ob, side)
          /\ Len(Orders(view, side)) = Cardinality(CoreOrders(ob, side))
    /\ DOMAIN view.orders = ob.orders
    /\ TradesLast(view, 1) =
          IF hist.lastTrade = NoTrade THEN << >> ELSE << hist.lastTrade >>

\* trades happened, the last one left its maker resting with a reduced
\* size, and orders rest on both sides
C2_Witness ==
    /\ hist.lastTrade # NoTrade
    /\ hist.lastTrade.MakerOrderID \in DOMAIN view.orders
    /\ Len(Orders(view, SideBuy)) >= 1
    /\ Len(Orders(view, SideSell)) >= 1
    /\ view.tape.count = TapeCapacity

(***************************************************************************)
(* Readings of an observed submit.                                         *)
(***************************************************************************)
OppositeSide(side) == IF side = SideBuy THEN SideSell ELSE SideBuy

\* a set of prices, best first for a side
RECURSIVE BestFirst(_, _)
BestFirst(S, side) ==
    IF S = {} THEN << >>
    ELSE LET x == CHOOSE y \in S : \A z \in S : IF side = SideBuy THEN y >= z ELSE y <= z
         IN  << x >> \o BestFirst(S \ {x}, side)

\* the ids resting on a side by the history h of the events: best price
\* first and, at one price, in the order of their Rested events
RECURSIVE ArrivalOrder(_, _, _)
ArrivalOrder(h, side, prices) ==
    IF prices = << >> THEN << >>
    ELSE h.arrived[<< side, Head(prices) >>] \o ArrivalOrder(h, side, Tail(prices))

Priority(h, side) ==
    ArrivalOrder(h, side,
        BestFirst({p \in 0..MaxPrice : << side, p >> \in DOMAIN h.arrived}, side))

(***************************************************************************)
(* C3.  Price-time priority: for every accepted submit, the makers of      *)
(* report.Fills are, in order, the first orders of the opposite side taken *)
(* best price first and, at one price, in the order in which they were     *)
(* rested; each fill is at its maker's price; every maker but the last is  *)
(* consumed whole and has left the book, so no maker trades while an       *)
(* order that arrived earlier at its price, or any order at a better       *)
(* price, is still resident.                                               *)
(***************************************************************************)
C3_PriceTimePriority ==
    AcceptedSubmit =>
        LET P == Priority(pre.hist, OppositeSide(call.o.side))
            F == ret.report.Fills
        IN  /\ Len(F) <= Len(P)
            /\ \A i \in 1..Len(F) :
                  /\ F[i].MakerOrderID = P[i]
                  /\ F[i].Price = pre.ob.nodes[P[i]].price
                  /\ \A j \in 1..(i - 1) :
                        /\ F[j].Size = pre.hist.owed[P[j]]
                        /\ P[j] \notin ob.orders
                        /\ IF call.o.side = SideBuy THEN F[j].Price <= F[i].Price
                                                    ELSE F[j].Price >= F[i].Price

\* two makers at one price are filled in the order they arrived, which is
\* not the order of their ids
C3_Witness ==
    /\ AcceptedSubmit
    /\ Len(ret.report.Fills) = 2
    /\ ret.report.Fills[1].Price = ret.report.Fills[2].Price
    /\ ret.report.Fills[1].MakerOrderID > ret.report.Fills[2].MakerOrderID

(***************************************************************************)
(* C4.  The events of every accepted submit: one pair (Trade, X) for each  *)
(* fill of report.Fills, in that order, where X names the Trade's maker    *)
(* and is Removed(Filled, remaining 0) when the maker was consumed whole   *)
(* and Reduced(delta = -size, remaining = what the maker has left, > 0)    *)
(* otherwise; then one Rested event of size report.Remaining exactly when  *)
(* the order is a limit order with Remaining > 0, which is exactly when    *)
(* report.Rested is true; nothing else.                                    *)
(***************************************************************************)
C4_EventShape ==
    AcceptedSubmit =>
        LET F == ret.report.Fills
            E == ret.events
            rests == call.op = "SubmitLimit" /\ ret.report.Remaining > 0
        IN  /\ Len(E) = 2 * Len(F) + (IF rests THEN 1 ELSE 0)
            /\ rests <=> ret.report.Rested
            /\ \A i \in 1..Len(F) :
                  LET t == E[2 * i - 1]
                      x == E[2 * i]
                      before == pre.ob.nodes[F[i].MakerOrderID].size
                  IN  /\ t.type = "Trade"
                      /\ t.MakerOrderID = F[i].MakerOrderID
                      /\ t.Size = F[i].Size /\ t.Price = F[i].Price
                      /\ t.TakerOrderID = call.o.id
                      /\ x.type \in {"Removed", "Reduced"}
                      /\ x.OrderID = t.MakerOrderID
                      /\ (t.Size = before) <=> (t.MakerOrderID \notin ob.orders)
                      /\ IF t.Size = before
                         THEN /\ x.type = "Removed"
                              /\ x.Reason = RemoveReasonFilled
                              /\ x.Remaining = 0
                         ELSE /\ x.type = "Reduced"
                              /\ x.Delta = -t.Size
                              /\ x.Remaining = before - t.Size
                              /\ x.Remaining > 0
                              /\ x.Remaining = ob.nodes[t.MakerOrderID].size
            /\ rests => /\ E[Len(E)].type = "Rested"
                        /\ E[Len(E)].Size = ret.report.Remaining
                        /\ E[Len(E)].OrderID = call.o.id

\* a limit order consumes a maker whole and rests its remainder
C4_Witness ==
    /\ call.op = "SubmitLimit" /\ ret.err = ErrNone
    /\ Len(ret.events) = 3
    /\ ret.events[1].type = "Trade"
    /\ ret.events[2].type = "Removed"
    /\ ret.events[3].type = "Rested"

(***************************************************************************)
(* C5.  For every accepted submit of an order of size s: the sizes of      *)
(* report.Fills and the sizes of the call's Trade events both sum to       *)
(* s - report.Remaining, 0 <= report.Remaining <= s, and every fill and    *)
(* every trade has a size of at least 1.                                   *)
(***************************************************************************)
C5_FillSums ==
    AcceptedSubmit =>
        /\ SumSizes(ret.report.Fills) = SumSizes(Trades(ret.events))
        /\ SumSizes(ret.report.Fills) = call.o.size - ret.report.Remaining
        /\ 0 <= ret.report.Remaining /\ ret.report.Remaining <= call.o.size
        /\ \A i \in 1..Len(ret.report.Fills) : ret.report.Fills[i].Size >= 1
        /\ \A i \in 1..Len(Trades(ret.events)) : Trades(ret.events)[i].Size >= 1

\* an order of size 2 takes 1 from a maker and is left with 1
C5_Witness ==
    /\ AcceptedSubmit
    /\ call.o.size = 2
    /\ Len(ret.report.Fills) = 1
    /\ ret.report.Remaining = 1

(***************************************************************************)
(* C6.  A limit order never trades beyond its limit: every Trade of an     *)
(* accepted SubmitLimit of a buy order at price p has Price <= p, every    *)
(* Trade of a sell order at p has Price >= p, and the Trade's price is the *)
(* price of the level its maker rested in.                                 *)
(***************************************************************************)
C6_LimitRespected ==
    (call.op = "SubmitLimit" /\ ret.err = ErrNone) =>
        \A i \in 1..Len(Trades(ret.events)) :
            LET t == Trades(ret.events)[i]
            IN  /\ call.o.side = SideBuy  => t.Price <= call.o.price
                /\ call.o.side = SideSell => t.Price >= call.o.price
                /\ t.Price = pre.ob.nodes[t.MakerOrderID].level
                /\ t.Price = pre.ob.nodes[t.MakerOrderID].price

\* a sell order trades above its limit, at the price of the bid it hit
C6_Witness ==
    /\ call.op = "SubmitLimit" /\ ret.err = ErrNone
    /\ call.o.side = SideSell
    /\ Len(Trades(ret.events)) >= 1
    /\ Trades(ret.events)[1].Price > call.o.price

(***************************************************************************)
(* C7.  Matching is maximal: when an accepted SubmitLimit returns with     *)
(* Remaining > 0, no level of the opposite side has an acceptable price    *)
(* (ask <= limit for a buy, bid >= limit for a sell) and the remainder     *)
(* rests at the order's limit price, last in that level; when an accepted  *)
(* SubmitMarket returns with Remaining > 0, the opposite side is empty.    *)
(***************************************************************************)
C7_MatchingMaximal ==
    /\ (call.op = "SubmitLimit" /\ ret.err = ErrNone /\ ret.report.Remaining > 0) =>
          LET o == call.o
              q == Fifo(ob, o.side = SideBuy, o.price)
          IN  /\ \A p \in LevelPrices(ob, o.side = SideSell) :
                    IF o.side = SideBuy THEN p > o.price ELSE p < o.price
              /\ o.id \in ob.orders
              /\ ob.nodes[o.id].price = o.price
              /\ ob.nodes[o.id].level = o.price
              /\ ob.nodes[o.id].side = o.side
              /\ ob.nodes[o.id].size = ret.report.Remaining
              /\ q # << >> /\ q[Len(q)] = o.id
              /\ q = Append(Fifo(pre.ob, o.side = SideBuy, o.price), o.id)
    /\ (call.op = "SubmitMarket" /\ ret.err = ErrNone /\ ret.report.Remaining > 0) =>
          /\ LevelPrices(ob, call.o.side = SideSell) = {}
          /\ bestLevel(sideFor(ob, OppositeSide(call.o.side))) = nil
          /\ \A id \in ob.orders : ob.nodes[id].side = call.o.side

\* a buy order takes the asks at its limit and rests what is left below the
\* asks that remain
C7_Witness ==
    /\ call.op = "SubmitLimit" /\ ret.err = ErrNone
    /\ call.o.side = SideBuy
    /\ Len(ret.report.Fills) >= 1
    /\ ret.report.Fills[1].Price = call.o.price
    /\ ret.report.Remaining > 0
    /\ LevelPrices(ob, FALSE) # {}

(***************************************************************************)
(* C8.  Market orders never rest: for every SubmitMarket, accepted or not, *)
(* report.Rested is false, no Rested event is emitted, no id enters the id *)
(* map, and the orders and levels of the taker's own side are what they    *)
(* were; a valid market order with a fresh id on an empty opposite side    *)
(* succeeds with Remaining = Size, no fills and no events.                 *)
(***************************************************************************)
C8_MarketNeverRests ==
    call.op = "SubmitMarket" =>
        LET o == call.o
        IN  /\ ~ret.report.Rested
            /\ \A i \in 1..Len(ret.events) : ret.events[i].type # "Rested"
            /\ ob.orders \subseteq pre.ob.orders
            /\ o.id \notin pre.ob.orders => o.id \notin ob.orders
            /\ ret.err # ErrNone => ob = pre.ob
            /\ o.side \in {SideBuy, SideSell} =>
                  /\ sideFor(ob, o.side) = sideFor(pre.ob, o.side)
                  /\ \A id \in pre.ob.orders :
                        pre.ob.nodes[id].side = o.side =>
                            id \in ob.orders /\ ob.nodes[id] = pre.ob.nodes[id]
            /\ ( /\ o.kind = OrderKindMarket
                 /\ o.id # 0 /\ o.userID # 0 /\ o.size > 0 /\ o.time > 0
                 /\ o.side \in {SideBuy, SideSell}
                 /\ o.id \notin pre.ob.orders
                 /\ LevelPrices(pre.ob, o.side = SideSell) = {} )
               => /\ ret.err = ErrNone
                  /\ ret.report = [OrderID |-> o.id, Remaining |-> o.size,
                                   Fills |-> << >>, Rested |-> FALSE]
                  /\ ret.events = << >>
                  /\ ob = pre.ob

\* a market order empties the opposite side, is left with a remainder, and
\* its own side has resting orders
C8_Witness ==
    /\ call.op = "SubmitMarket" /\ ret.err = ErrNone
    /\ Len(ret.report.Fills) >= 1
    /\ ret.report.Remaining > 0
    /\ LevelPrices(ob, call.o.side = SideBuy) # {}

C10_CancelFails ==
    call.op = "Cancel" =>
        /\ (call.id \notin pre.ob.orders /\ call.id # 0 /\ call.now > 0) =>
              /\ ret.err = ErrNotFound
              /\ ret.report = ZeroCancelReport
              /\ ret.events = << >>
              /\ ob = pre.ob /\ hist = pre.hist
        /\ (call.id = 0 \/ call.now <= 0) =>
              /\ ret.err = ErrInvalidOrder
              /\ ret.report = ZeroCancelReport
              /\ ret.events = << >>
              /\ ob = pre.ob /\ hist = pre.hist

\* an id that is not resident, in a book that has orders, is not found
C10_Witness ==
    /\ call.op = "Cancel"
    /\ call.id # 0 /\ call.now > 0
    /\ call.id \notin pre.ob.orders
    /\ pre.ob.orders # {}
    /\ ret.err = ErrNotFound

\* the claim as stated: NotFound for every id that is not resident and
\* every now
C10_NotFoundForEveryIdAndNow ==
    (call.op = "Cancel" /\ call.id \notin pre.ob.orders) =>
        /\ ret.err = ErrNotFound
        /\ ret.events = << >>
        /\ ob = pre.ob

(***************************************************************************)
(* C11.  SubmitLimit returns InvalidOrder exactly when kind is not LIMIT   *)
(* or id = 0 or userID = 0 or size <= 0 or price <= 0 or side is neither   *)
(* BUY nor SELL or time <= 0; SubmitMarket exactly when kind is not MARKET *)
(* or id = 0 or userID = 0 or size <= 0 or side is invalid or time <= 0,   *)
(* whatever the price.  A rejected submit returns no event and a zero      *)
(* report and leaves the book (levels, FIFOs, id map) as it was.           *)
(***************************************************************************)
C11_Validation ==
    ObservedSubmit =>
        LET o == call.o
            common == \/ o.id = 0 \/ o.userID = 0 \/ o.size <= 0
                      \/ o.side \notin {SideBuy, SideSell} \/ o.time <= 0
        IN  /\ call.op = "SubmitLimit" =>
                  ((ret.err = ErrInvalidOrder) <=>
                       (o.kind # OrderKindLimit \/ common \/ o.price <= 0))
            /\ call.op = "SubmitMarket" =>
                  ((ret.err = ErrInvalidOrder) <=>
                       (o.kind # OrderKindMarket \/ common))
            /\ ret.err # ErrNone =>
                  /\ ret.events = << >>
                  /\ ret.report = ZeroSubmitReport
                  /\ ob = pre.ob /\ hist = pre.hist

\* a limit order whose only fault is its time is rejected although it
\* would have crossed a resting order
C11_Witness ==
    /\ call.op = "SubmitLimit" /\ ret.err = ErrInvalidOrder
    /\ call.o.time <= 0 /\ call.o.price > 0 /\ call.o.size > 0
    /\ call.o.side = SideBuy
    /\ \E p \in LevelPrices(pre.ob, FALSE) : p <= call.o.price

(***************************************************************************)
(* C12.  A submit of an otherwise valid order whose id is the id of an     *)
(* order resting in the book returns DuplicateId before anything is        *)
(* matched: no event, a zero report, and the book, every maker included,   *)
(* is as it was, also when the order would have crossed.                   *)
(***************************************************************************)
C12_DuplicateId ==
    ( /\ ObservedSubmit
      /\ call.o.id \in pre.ob.orders
      /\ call.o.kind = (IF call.op = "SubmitLimit" THEN OrderKindLimit
                                                   ELSE OrderKindMarket)
      /\ call.o.userID # 0 /\ call.o.size > 0 /\ call.o.time > 0
      /\ call.o.side \in {SideBuy, SideSell}
      /\ (call.op = "SubmitLimit" => call.o.price > 0) )
    => /\ ret.err = ErrDuplicateID
       /\ ret.events = << >>
       /\ ret.report = ZeroSubmitReport
       /\ ob = pre.ob /\ hist = pre.hist

\* a limit order with the id of a resting order is rejected although the
\* opposite side has a level at an acceptable price
C12_Witness ==
    /\ call.op = "SubmitLimit" /\ ret.err = ErrDuplicateID
    /\ call.o.side = SideSell
    /\ \E p \in LevelPrices(pre.ob, TRUE) : p >= call.o.price

(***************************************************************************)
(* Readings of the event log.                                              *)
(***************************************************************************)
\* the event names id as a resting order
NamesResting(e, id) ==
    e.type \in {"Rested", "Reduced", "Removed"} /\ e.OrderID = id

\* the event names id as the maker of a trade
NamesMaker(e, id) == e.type = "Trade" /\ e.MakerOrderID = id

\* the events of a log that name id as a resting order, in order
LifeOf(l, id) == SelectSeq(l, LAMBDA e : NamesResting(e, id))

(***************************************************************************)
(* C13.  Order lifecycle, for commands with pairwise distinct order ids:   *)
(* the events naming an id as a resting order are one Rested, then Reduced *)
(* events whose remaining sizes are positive and strictly decreasing       *)
(* (from the rested size), then at most one Removed, which is the last;    *)
(* no event after its Removed names the id as maker or resting order, no   *)
(* Trade names it as maker before its Rested, and the id of a market order *)
(* is in no Rested, Reduced or Removed event.                              *)
(***************************************************************************)
C13_Lifecycle ==
    \A id \in 0..LifeMaxId :
        LET L == LifeOf(log, id)
        IN  /\ L # << >> =>
                  /\ L[1].type = "Rested"
                  /\ \A i \in 2..Len(L) :
                        /\ L[i].type # "Rested"
                        /\ L[i].type = "Removed" => i = Len(L)
                        /\ L[i].type = "Reduced" =>
                              /\ L[i].Remaining > 0
                              /\ L[i].Remaining <
                                    (IF i = 2 THEN L[1].Size ELSE L[i - 1].Remaining)
            /\ \A k \in 1..Len(log) :
                  /\ (log[k].type = "Removed" /\ log[k].OrderID = id) =>
                        \A j \in (k + 1)..Len(log) :
                            ~NamesResting(log[j], id) /\ ~NamesMaker(log[j], id)
                  /\ NamesMaker(log[k], id) =>
                        \E j \in 1..(k - 1) :
                            log[j].type = "Rested" /\ log[j].OrderID = id
            /\ (id \in DOMAIN issued /\ issued[id] = OrderKindMarket) =>
                  /\ L = << >>
                  /\ \A k \in 1..Len(log) : ~NamesMaker(log[k], id)

\* an order rests, is reduced twice and is then removed
C13_Witness ==
    \E id \in 1..LifeMaxId :
        /\ Len(LifeOf(log, id)) = 4
        /\ LifeOf(log, id)[2].type = "Reduced"
        /\ LifeOf(log, id)[3].type = "Reduced"
        /\ LifeOf(log, id)[4].type = "Removed"

(***************************************************************************)
(* Readings of the service used by the properties.                         *)
(***************************************************************************)
\* the positions 1, 2, ..., n
Upto(n) == [i \in 1..n |-> i]

\* the positions of the events in a sequence of events in flight
Positions(q) == [i \in 1..Len(q) |-> q[i].n]

\* q is strictly increasing
Increasing(q) == \A i \in 1..Len(q), j \in 1..Len(q) : i < j => q[i] < q[j]

\* caller c has returned what the worker replied
GotResponse(c) ==
    tasks.callers[c].pc = "returned" /\ tasks.callers[c].result.via = "resp"

\* caller c has returned the cancellation error
GotCanceled(c) ==
    /\ tasks.callers[c].pc = "returned"
    /\ tasks.callers[c].result.via \in {"ctx", "closed"}
    /\ tasks.callers[c].result.err = ErrCanceled

(***************************************************************************)
(* C14.  The read model of the service is never stale: when SubmitLimit,   *)
(* SubmitMarket or Cancel of the service has returned a report without     *)
(* error, every event of that command has been applied to the view.        *)
(***************************************************************************)
C14_ViewNeverStale ==
    \A c \in 1..SvcCallers :
        (GotResponse(c) /\ tasks.callers[c].result.err = ErrNone) =>
            tasks.callers[c].evs \subseteq Range(tasks.applied)

(***************************************************************************)
(* C15.  At every instant, Close in progress or done included, the events  *)
(* the dispatcher has applied to the view are a prefix of the events the   *)
(* core produced, in the order of the log: none skipped, none twice, none  *)
(* out of order.                                                           *)
(***************************************************************************)
C15_AppliedIsPrefix ==
    /\ Len(tasks.applied) <= Len(log)
    /\ tasks.applied = Upto(Len(tasks.applied))
    /\ view = ApplyAll(NewBookView(TapeCapacity), SubSeq(log, 1, Len(tasks.applied)))

(***************************************************************************)
(* C16.  After Close() of the service has returned, every event the core   *)
(* produced has been applied to the view: the view's levels and orders are *)
(* the core's.                                                             *)
(***************************************************************************)
C16_ClosedViewComplete ==
    CloseHasReturned =>
        /\ tasks.applied = Upto(Len(log))
        /\ \A side \in {SideBuy, SideSell} :
              /\ Range(Levels(view, side)) = CoreLevels(ob, side)
              /\ Range(Orders(view, side)) = CoreOrders(ob, side)

(***************************************************************************)
(* C17.  A call of SubmitLimit, SubmitMarket or Cancel on the service      *)
(* whose context had already fired when it was made never has its command  *)
(* executed (no core call, no event), and it returns the cancellation      *)
(* error.                                                                  *)
(***************************************************************************)
C17_FiredBeforeCall ==
    \A c \in 1..SvcCallers :
        tasks.callers[c].fired =>
            /\ ~tasks.callers[c].executed
            /\ tasks.callers[c].evs = {}
            /\ tasks.callers[c].pc = "returned" => GotCanceled(c)

(***************************************************************************)
(* C18.  A command the worker has dequeued is applied whole and all its    *)
(* events are put on the internal channel, even when the caller's context  *)
(* fires before the reply; that caller returns the cancellation error (the *)
(* late reply stays unread in respCh), and the worker's reply send never   *)
(* blocks: respCh has room whenever the worker is about to reply.          *)
(***************************************************************************)
C18_DequeuedRunsWhole ==
    /\ \A c \in 1..SvcCallers :
          /\ (/\ tasks.callers[c].executed
              /\ ~(tasks.worker.pc = "emit" /\ tasks.worker.cmd.respCh = c)) =>
                 tasks.callers[c].evs \subseteq Range(tasks.emitted)
          /\ tasks.callers[c].evs \subseteq 1..Len(log)
          /\ (tasks.callers[c].late /\ tasks.callers[c].pc = "returned") =>
                 GotCanceled(c)
    /\ tasks.worker.pc = "reply" =>
          tasks.callers[tasks.worker.cmd.respCh].respCh = << >>

\* the external stream so far: what subscribers received, then what
\* externalEvents still holds
ExternalStream == tasks.received \o svc.externalEvents

\* command a was executed before command b (both produced events)
ExecutedBefore(a, b) ==
    /\ a # b
    /\ \E x \in tasks.callers[a].evs, y \in tasks.callers[b].evs : x < y

\* in the sequence q of positions every event of a comes before every event of b
Precede(q, a, b) ==
    \A i \in 1..Len(q), j \in 1..Len(q) :
        (q[i] \in tasks.callers[a].evs /\ q[j] \in tasks.callers[b].evs) => i < j

(***************************************************************************)
(* C19.  For commands A and B executed in that order, every event of A     *)
(* precedes every event of B on the internal channel and on the external   *)
(* stream.  The external stream is an order-preserving subsequence of the  *)
(* core's event log: each of its events is the log's event at its          *)
(* position, positions strictly increase (so no event twice); when         *)
(* DropExternalEvents is false and the service is not closed it is the     *)
(* log's beginning with nothing left out.  The same for the internal       *)
(* channel.                                                                *)
(***************************************************************************)
C19_StreamsInOrder ==
    /\ \A a \in 1..SvcCallers, b \in 1..SvcCallers :
          ExecutedBefore(a, b) =>
              /\ Precede(tasks.emitted, a, b)
              /\ Precede(Positions(ExternalStream), a, b)
    /\ Increasing(tasks.emitted)
    /\ Increasing(Positions(ExternalStream))
    /\ \A i \in 1..Len(ExternalStream) :
          /\ ExternalStream[i].n \in 1..Len(log)
          /\ ExternalStream[i].ev = log[ExternalStream[i].n]
    /\ \A i \in 1..Len(svc.internalEvents) :
          /\ svc.internalEvents[i].n \in 1..Len(log)
          /\ svc.internalEvents[i].ev = log[svc.internalEvents[i].n]
    /\ (~svc.cfg.DropExternalEvents /\ ~svc.closed) =>
          Positions(ExternalStream) = Upto(Len(ExternalStream))

\* two commands with events were executed, and a subscriber has received
\* the three events of the log in order
C19_Witness ==
    /\ \E a \in 1..SvcCallers, b \in 1..SvcCallers :
          ExecutedBefore(a, b) /\ Cardinality(tasks.callers[b].evs) = 2
    /\ Positions(tasks.received) = << 1, 2, 3 >>
    /\ ~svc.closed

(***************************************************************************)
(* C20.  Every event is applied to the view before its external send is    *)
(* attempted: for every event sent to the external stream (received by a   *)
(* subscriber or still in externalEvents), and for the event the           *)
(* dispatcher is about to send, that event and every event before it in    *)
(* the core's log have been applied to the view.                           *)
(***************************************************************************)
C20_AppliedBeforeSent ==
    /\ \A i \in 1..Len(ExternalStream) :
          1..ExternalStream[i].n \subseteq Range(tasks.applied)
    /\ tasks.dispatcher.pc = "send" =>
          1..tasks.dispatcher.ev.n \subseteq Range(tasks.applied)

\* the view's levels and orders are the core's
ViewIsCore ==
    \A side \in {SideBuy, SideSell} :
        /\ Range(Levels(view, side)) = CoreLevels(ob, side)
        /\ Range(Orders(view, side)) = CoreOrders(ob, side)

\* every call made has returned
AllReturned == \A c \in 1..SvcCallers : tasks.callers[c].pc \in {"idle", "returned"}

\* the dispatcher is idle: at its select with nothing to receive
DispatcherIdle == tasks.dispatcher.pc = "select" /\ svc.internalEvents = << >>

\* the worker is idle: at its select with no command queued
WorkerIdle == tasks.worker.pc = "select" /\ svc.cmdCh = << >>

(***************************************************************************)
(* C21, as stated.  With DropExternalEvents set and the service not        *)
(* closed: the dispatcher, about to send to the external channel, can      *)
(* always take its step; every event of the log is eventually applied to   *)
(* the view; and whenever all calls made have returned and the dispatcher  *)
(* is idle, the view's levels and orders are the core's.                   *)
(***************************************************************************)
C21_AbsentConsumer ==
    /\ [](tasks.dispatcher.pc = "send" => ENABLED DispatcherSend)
    /\ []<>(Range(tasks.applied) = 1..Len(log))
    /\ []((AllReturned /\ DispatcherIdle) => ViewIsCore)

(***************************************************************************)
(* C21, amended.  As C21, but the view's levels and orders are the core's  *)
(* whenever all calls made have returned, the worker is idle and the       *)
(* dispatcher is idle: a call whose context fired returns while the worker *)
(* may still be running its command.                                       *)
(***************************************************************************)
C21_AbsentConsumerIdleWorker ==
    /\ [](tasks.dispatcher.pc = "send" => ENABLED DispatcherSend)
    /\ []<>(Range(tasks.applied) = 1..Len(log))
    /\ []((AllReturned /\ WorkerIdle /\ DispatcherIdle) => ViewIsCore)

\* nobody reads Events(), an event was dropped, both calls have returned
\* their reports, worker and dispatcher are idle, and the view shows the
\* two resting buy orders of two limit submits
C21_Witness ==
    /\ tasks.received = << >>
    /\ svc.droppedExternal = 1
    /\ \A c \in 1..SvcCallers : GotResponse(c)
    /\ WorkerIdle /\ DispatcherIdle
    /\ Len(Orders(view, SideBuy)) = 2

(***************************************************************************)
(* C22.  Service.Close may be called any number of times, one call after   *)
(* the other or several at once: no call panics (neither s.closed nor the  *)
(* external channel is closed twice), a Close that has returned leaves the *)
(* external channel closed, a closed external channel stays closed, and    *)
(* nothing is sent on it once it is closed.                                *)
(***************************************************************************)
C22_CloseIdempotent ==
    /\ [](tasks.panic = "none")
    /\ [](CloseHasReturned => svc.externalClosed)
    /\ [][svc.externalClosed =>
            (svc.externalClosed' /\ ExternalStream' = ExternalStream)]_vars

\* every caller of Close has returned, after events went out on the channel
C22_Witness ==
    /\ \A k \in 1..SvcClosers : tasks.closers[k] = "returned"
    /\ ExternalStream # << >>

(***************************************************************************)
(* C23.  A call of SubmitLimit, SubmitMarket or Cancel made after Close    *)
(* has returned is never executed (no core call, no event, hence no change *)
(* of the view), and it returns an error that is not the cancellation      *)
(* error of the caller's context.                                          *)
(***************************************************************************)
C23_ClosedNotCanceled ==
    \A c \in 1..SvcCallers :
        tasks.callers[c].afterClose =>
            /\ ~tasks.callers[c].executed
            /\ tasks.callers[c].evs = {}
            /\ tasks.callers[c].pc = "returned" =>
                  tasks.callers[c].result.err \notin {ErrNone, ErrCanceled}

\* caller c is blocked: parked in the send to cmdCh or waiting for its reply
Blocked(c) == tasks.callers[c].pc \in {"sending", "parked"}

(***************************************************************************)
(* C24.  A call of Close returns, whatever the state it is made in (the    *)
(* worker waiting for room in the internal channel, the dispatcher waiting *)
(* for room in the external channel, commands queued, callers blocked);    *)
(* when it has returned the worker and the dispatcher have exited; every   *)
(* caller blocked when s.closed is closed returns the error at once, and   *)
(* every caller still on its way returns.                                  *)
(***************************************************************************)
C24_CloseTerminates ==
    /\ (tasks.closers[1] = "waiting") ~> (tasks.closers[1] = "returned")
    /\ [](CloseHasReturned =>
            (tasks.worker.pc = "done" /\ tasks.dispatcher.pc = "done"))
    /\ [][\A c \in 1..SvcCallers :
            (Blocked(c) /\ ~svc.closed /\ svc.closed') => GotCanceled(c)']_vars
    /\ \A c \in 1..SvcCallers :
            (svc.closed /\ tasks.callers[c].pc = "await")
                ~> (tasks.callers[c].pc = "returned")

\* Close has been called with the dispatcher waiting for room in the full
\* external channel (no drop, no consumer), the worker in the middle of a
\* command, and the caller of that command has returned by <-s.closed
C24_Witness ==
    /\ tasks.closers[1] = "waiting"
    /\ tasks.dispatcher.pc = "send"
    /\ ~svc.cfg.DropExternalEvents
    /\ Len(svc.externalEvents) = svc.cfg.ExternalEventBuffer
    /\ tasks.received = << >>
    /\ tasks.worker.pc \in {"emit", "reply"}
    /\ GotCanceled(tasks.worker.cmd.respCh)
    /\ tasks.callers[tasks.worker.cmd.respCh].result.via = "closed"

(***************************************************************************)
(* C25.  DroppedExternalEvents() never decreases; it grows by one exactly  *)
(* in the dispatcher's step that finds the external channel full and       *)
(* leaves an applied event off it; whenever the dispatcher is between two  *)
(* events the events applied are those put on the external channel plus    *)
(* those counted; without DropExternalEvents the counter stays 0.          *)
(***************************************************************************)
C25_DroppedCounter ==
    /\ [](tasks.dispatcher.pc = "select" =>
            Len(tasks.applied) = Len(ExternalStream) + svc.droppedExternal)
    /\ [](~svc.cfg.DropExternalEvents => svc.droppedExternal = 0)
    /\ [][svc.droppedExternal' >= svc.droppedExternal]_vars
    /\ [][svc.droppedExternal' # svc.droppedExternal =>
            /\ svc.droppedExternal' = svc.droppedExternal + 1
            /\ tasks.dispatcher.pc = "send"
            /\ tasks.dispatcher.ev.n = tasks.applied[Len(tasks.applied)]
            /\ Len(svc.externalEvents) = svc.cfg.ExternalEventBuffer
            /\ ExternalStream' = ExternalStream]_vars

\* one event was received by the subscriber, one waits in the external
\* channel and one was dropped and counted
C25_Witness ==
    /\ svc.droppedExternal = 1
    /\ Len(tasks.received) = 1
    /\ Len(svc.externalEvents) = 1
    /\ tasks.dispatcher.pc = "select"

\* the last m elements of s, in the order of s
Newest(s, m) == IF m <= 0 THEN << >> ELSE SubSeq(s, Len(s) - m + 1, Len(s))

\* the least of a, b and c
Least(a, b, c) ==
    IF a <= b /\ a <= c THEN a ELSE IF b <= c THEN b ELSE c

\* the capacity a tape asked for with c has
Effective(c) == IF c <= 0 THEN 1 ELSE c

(***************************************************************************)
(* C26.  A trade tape made with capacity c (c <= 0 counting as 1), after k *)
(* appends: Last(n) is the last min(n, k, c) trades appended, oldest       *)
(* first, and empty when n <= 0 or k = 0; an append to a full tape writes  *)
(* only the slot of its oldest trade.                                      *)
(***************************************************************************)
C26_TapeLast ==
    /\ [](\A n \in (-1)..(TapeMaxAppends + 1) :
            /\ TapeLast(view.tape, n) =
                  Newest(log, Least(n, Len(log), Effective(call.capacity)))
            /\ (n <= 0 \/ Len(log) = 0) => TapeLast(view.tape, n) = << >>)
    /\ [][(view.tape.count = view.tape.size /\ log' # log) =>
            /\ view.tape.buf[view.tape.start + 1] = TapeLast(view.tape, view.tape.size)[1]
            /\ \A i \in 1..view.tape.size :
                  i # view.tape.start + 1 => view'.tape.buf[i] = view.tape.buf[i]]_vars

\* a tape of capacity 3 after four appends, its oldest trade overwritten,
\* holding trades that differ
C26_Witness ==
    /\ call.capacity = 3
    /\ Len(log) = 4
    /\ log[1] # log[2] /\ log[3] # log[4]
    /\ TapeLast(view.tape, 4) = << log[2], log[3], log[4] >>

\* the orders the view stores on a side at price p
StoredAt(v, side, p) == SelectSeq(Orders(v, side), LAMBDA o : o.Price = p)

(***************************************************************************)
(* C27.  Levels(side) of the view lists every price at which the view      *)
(* stores an order of that side, and no other; each once, with the sum of  *)
(* the stored remaining sizes of those orders, which is positive; bids     *)
(* from the highest price down and asks from the lowest price up,          *)
(* strictly.                                                               *)
(***************************************************************************)
C27_ViewLevels ==
    \A side \in {SideBuy, SideSell} :
        /\ {l.Price : l \in Range(Levels(view, side))} =
              {o.Price : o \in Range(Orders(view, side))}
        /\ \A i \in 1..Len(Levels(view, side)) :
              /\ Levels(view, side)[i].Size > 0
              /\ Levels(view, side)[i].Size =
                    SumSizes(StoredAt(view, side, Levels(view, side)[i].Price))
              /\ \A j \in (i + 1)..Len(Levels(view, side)) :
                    IF side = SideBuy
                    THEN Levels(view, side)[i].Price > Levels(view, side)[j].Price
                    ELSE Levels(view, side)[i].Price < Levels(view, side)[j].Price

\* after a trade: two bid levels, one of them the sum of two stored orders
\* of different remaining sizes
C27_Witness ==
    /\ Len(Levels(view, SideBuy)) = 2
    /\ \E l \in Range(Levels(view, SideBuy)) :
          /\ Len(StoredAt(view, SideBuy, l.Price)) = 2
          /\ \E o \in Range(StoredAt(view, SideBuy, l.Price)) : o.Size < l.Size - o.Size
    /\ hist.lastTrade.type = "Trade"

\* the consolidated stream: what was sent on MarketService.Events()
MarketStream == tasks.received \o svc.externalEvents

\* the last trade the market view s holds for ticker t
LastTradeAt(s, t) ==
    IF t \in DOMAIN s.lastTrade THEN s.lastTrade[t] ELSE [type |-> "none"]

(***************************************************************************)
(* C28.  A command or query of the MarketService for a ticker that is not  *)
(* registered returns ErrUnknownTicker and changes no child (nothing is    *)
(* enqueued), no view, no stream and no goroutine; for a registered ticker *)
(* it is the call on that ticker's child service: it returns what that     *)
(* call returns, leaves that child as that call leaves it, and touches no  *)
(* other child.                                                            *)
(***************************************************************************)
C28_UnknownInstrument ==
    [][svc'.calls # svc.calls =>
        IF call'.tid \notin DOMAIN svc.books
        THEN /\ ret'.err = ErrUnknownTicker
             /\ svc' = [svc EXCEPT !.calls = svc'.calls]
             /\ tasks' = tasks
        ELSE /\ \A t \in DOMAIN svc.books \ {call'.tid} : svc'.books[t] = svc.books[t]
             /\ IF call'.op = "command"
                THEN /\ ret'.err = BookCall(svc.books[call'.tid], call'.cmd, call'.tid).err
                     /\ ret'.report =
                           BookCall(svc.books[call'.tid], call'.cmd, call'.tid).report
                     /\ svc'.books[call'.tid] =
                           BookCall(svc.books[call'.tid], call'.cmd, call'.tid).book
                ELSE /\ ret'.err = ErrNone
                     /\ ret'.value = BookQuery(svc.books[call'.tid], call'.cmd)
                     /\ svc'.books = svc.books]_vars

\* a command for an unregistered ticker has returned ErrUnknownTicker while
\* a child holds a resting order and an event waits on the stream
C28_Witness ==
    /\ call # NoCall
    /\ call.op = "command"
    /\ call.tid = MktTickers + 1
    /\ ret.err = ErrUnknownTicker
    /\ \E t \in DOMAIN svc.books : svc.books[t].ob # newOrderBook
    /\ svc.externalEvents # << >>

(***************************************************************************)
(* C29.  Instruments are isolated.  A command for ticker X changes no      *)
(* other ticker's child (core and view) and no last-trade entry; a child's *)
(* channels carry only events of its own core, so its view is fed by them  *)
(* alone; the last-trade entry of a ticker changes only when its forwarder *)
(* takes a Trade of that ticker's core, to that trade; and every event on  *)
(* the consolidated stream is tagged with the ticker whose core made it.   *)
(***************************************************************************)
C29_Isolation ==
    /\ [][(svc'.calls # svc.calls /\ call'.tid \in DOMAIN svc.books) =>
            /\ \A t \in DOMAIN svc.books \ {call'.tid} : svc'.books[t] = svc.books[t]
            /\ svc'.lastTrade = svc.lastTrade
            /\ MarketStream' = MarketStream]_vars
    /\ [](\A t \in DOMAIN svc.books :
            \A e \in Range(svc.books[t].internalEvents)
                        \cup Range(svc.books[t].externalEvents) : e.src = t)
    /\ [][\A t \in DOMAIN svc.books :
            LastTradeAt(svc', t) # LastTradeAt(svc, t) =>
                /\ tasks'.forwarders[t].pc = "send"
                /\ tasks'.forwarders[t].ev.src = t
                /\ tasks'.forwarders[t].ev.Event = LastTradeAt(svc', t)]_vars
    /\ [](\A i \in 1..Len(MarketStream) : MarketStream[i].Ticker = MarketStream[i].src)

\* ticker 1 has traded, ticker 2 has not and holds a resting order the
\* subscriber was told of
C29_Witness ==
    /\ LastTradeAt(svc, 1).type = "Trade"
    /\ LastTradeAt(svc, 2).type = "none"
    /\ Orders(svc.books[2].view, SideBuy) # << >>
    /\ \E i \in 1..Len(tasks.received) : tasks.received[i].Ticker = 2

(***************************************************************************)
(* C30.  MarketService.Close may be called again, after or during another  *)
(* call of it: no call panics, and the consolidated stream is closed once. *)
(***************************************************************************)
C30_MktCloseIdempotent ==
    /\ tasks.panic = "none"
    /\ \A k \in 1..MktClosers : tasks.closers[k] # "panicked"

\* the sum of the remaining sizes of the orders ids
RECURSIVE SumRemaining(_, _)
SumRemaining(nodes, ids) ==
    IF ids = << >> THEN 0 ELSE nodes[Head(ids)].size + SumRemaining(nodes, Tail(ids))

(***************************************************************************)
(* C33.  After every call on the core, the totalVolume of every level of   *)
(* either side is the sum of the remaining sizes of the orders linked in   *)
(* that level, from its head along next.                                   *)
(***************************************************************************)
C33_LevelVolume ==
    \A isBid \in BOOLEAN :
        \A p \in LevelPrices(ob, isBid) :
            SideOf(ob, isBid).levels[p].totalVolume =
                SumRemaining(ob.nodes, Fifo(ob, isBid, p))

\* the middle one of three orders of a level, whose head was partly
\* filled before, has been cancelled
C33_Witness ==
    /\ call.op = "Cancel" /\ ret.err = ErrNone
    /\ \E isBid \in BOOLEAN :
          \E p \in LevelPrices(pre.ob, isBid) :
              /\ Len(Fifo(pre.ob, isBid, p)) = 3
              /\ Fifo(pre.ob, isBid, p)[2] = call.id
              /\ pre.hist.owed[Fifo(pre.ob, isBid, p)[1]]
                    < pre.hist.rested[Fifo(pre.ob, isBid, p)[1]]
              /\ Len(Fifo(ob, isBid, p)) = 2

\* the best of a set of prices for a side: nil when there is none
BestOf(S, isBid) ==
    IF S = {} THEN nil
    ELSE CHOOSE x \in S : \A y \in S : IF isBid THEN x >= y ELSE x <= y

(***************************************************************************)
(* C34.  After every call on the core, on either side: a price has a level *)
(* exactly if an order of the id map rests at it; every level has a        *)
(* non-empty FIFO and a positive totalVolume; the heap holds exactly the   *)
(* prices of the level map, each once; and bestLevel() is the highest bid  *)
(* price, the lowest ask price, or nil for a side without levels.          *)
(***************************************************************************)
C34_LevelsAndHeap ==
    \A isBid \in BOOLEAN :
        /\ LevelPrices(ob, isBid) =
              {ob.nodes[id].price :
                  id \in {x \in ob.orders : (ob.nodes[x].side = SideBuy) = isBid}}
        /\ \A p \in LevelPrices(ob, isBid) :
              /\ SideOf(ob, isBid).levels[p].price = p
              /\ Fifo(ob, isBid, p) # << >>
              /\ SideOf(ob, isBid).levels[p].totalVolume > 0
        /\ Range(SideOf(ob, isBid).h) = LevelPrices(ob, isBid)
        /\ Len(SideOf(ob, isBid).h) = Cardinality(LevelPrices(ob, isBid))
        /\ bestLevel(SideOf(ob, isBid)) = BestOf(LevelPrices(ob, isBid), isBid)

\* a cancel has removed a level that was neither the best nor in the last
\* slot of a heap of three
C34_Witness ==
    /\ call.op = "Cancel" /\ ret.err = ErrNone
    /\ \E isBid \in BOOLEAN :
          /\ Len(SideOf(pre.ob, isBid).h) = 3
          /\ IndexOf(SideOf(pre.ob, isBid).h, pre.ob.nodes[call.id].price) = 1
          /\ (pre.ob.nodes[call.id].side = SideBuy) = isBid
          /\ Len(SideOf(ob, isBid).h) = 2

\* how many times id is linked in the FIFO of the level at p
LinkedIn(book, id, isBid, p) ==
    Cardinality({i \in 1..Len(Fifo(book, isBid, p)) : Fifo(book, isBid, p)[i] = id})

(***************************************************************************)
(* C35.  After every call on the core, every id of the id map has a        *)
(* positive remaining size and is linked once in the FIFO of the level at  *)
(* its own price on its own side and in no other FIFO; and every order     *)
(* linked in a FIFO is in the id map.                                      *)
(***************************************************************************)
C35_ResidentIsLinked ==
    /\ \A id \in ob.orders :
          /\ ob.nodes[id].size > 0
          /\ ob.nodes[id].level = ob.nodes[id].price
          /\ ob.nodes[id].price \in LevelPrices(ob, ob.nodes[id].side = SideBuy)
          /\ \A isBid \in BOOLEAN :
                \A p \in LevelPrices(ob, isBid) :
                    LinkedIn(ob, id, isBid, p) =
                        IF isBid = (ob.nodes[id].side = SideBuy) /\ p = ob.nodes[id].price
                        THEN 1 ELSE 0
    /\ \A isBid \in BOOLEAN :
          \A p \in LevelPrices(ob, isBid) :
              Range(Fifo(ob, isBid, p)) \subseteq ob.orders

\* a taker filled one maker, which left the id map, and part of the next,
\* which stays in it
C35_Witness ==
    /\ AcceptedSubmit
    /\ Len(ret.report.Fills) = 2
    /\ ret.report.Fills[1].MakerOrderID \notin ob.orders
    /\ ret.report.Fills[2].MakerOrderID \in ob.orders
    /\ ret.report.Fills[1].MakerOrderID \in pre.ob.orders

\* what is left of order id: its remaining size while it is resident, what
\* its Removed event reports once it was cancelled, nothing once it was filled
LeftOf(book, l, id) ==
    IF id \in book.orders THEN book.nodes[id].size
    ELSE IF \E k \in 1..Len(l) :
               /\ l[k].type = "Removed" /\ l[k].OrderID = id
               /\ l[k].Reason = RemoveReasonCanceled
    THEN LifeOf(l, id)[Len(LifeOf(l, id))].Remaining
    ELSE 0

(***************************************************************************)
(* C40.  Sizes of makers are conserved, for commands with pairwise         *)
(* distinct order ids: at every point after an order rested with size s, s *)
(* is the sum of the sizes of the Trade events naming it as maker plus     *)
(* what is left of it (its remaining size if resident, the Remaining of    *)
(* its Removed event if cancelled, 0 if filled); an order that is gone has *)
(* its Removed event; and no remaining size, in the book or in an event,   *)
(* is negative.                                                            *)
(***************************************************************************)
C40_MakerConservation ==
    /\ \A id \in 1..LifeMaxId :
          LifeOf(log, id) # << >> =>
              /\ LifeOf(log, id)[1].Size =
                    SumSizes(SelectSeq(log, LAMBDA e : NamesMaker(e, id)))
                        + LeftOf(ob, log, id)
              /\ id \notin ob.orders =>
                    LifeOf(log, id)[Len(LifeOf(log, id))].type = "Removed"
    /\ \A id \in ob.orders : ob.nodes[id].size >= 0
    /\ \A k \in 1..Len(log) :
          log[k].type \in {"Reduced", "Removed"} => log[k].Remaining >= 0

\* an order of size 3 was the maker of two trades and was then cancelled
\* with 1 remaining
C40_Witness ==
    \E id \in 1..LifeMaxId :
        /\ LifeOf(log, id) # << >>
        /\ LifeOf(log, id)[1].Size = 3
        /\ Len(SelectSeq(log, LAMBDA e : NamesMaker(e, id))) = 2
        /\ LifeOf(log, id)[Len(LifeOf(log, id))].type = "Removed"
        /\ LifeOf(log, id)[Len(LifeOf(log, id))].Reason = RemoveReasonCanceled
        /\ LifeOf(log, id)[Len(LifeOf(log, id))].Remaining = 1

(***************************************************************************)
(* One orderbook service seen from its worker: the commands run one after  *)
(* the other, each submit takes the next id of idGen and every command     *)
(* reads the clock, which never runs backwards; the events of a command    *)
(* are applied to the view before the next command.                        *)
(*   svc.idGen   the last id issued                                        *)
(*   tasks.now   the last time read from the clock                         *)
(***************************************************************************)
InitSeq ==
    /\ ob = newOrderBook
    /\ view = NewBookView(TapeCapacity)
    /\ call = NoCall
    /\ ret = [report |-> ZeroSubmitReport, events |-> << >>, err |-> ErrNone]
    /\ pre = [ob |-> newOrderBook, hist |-> NoHist]
    /\ hist = NoHist
    /\ log = << >>
    /\ issued = EmptyMap
    /\ svc = NewService(FALSE)
    /\ tasks = [now |-> 1]

SeqCommands ==
    [typ : {cmdSubmitLimit}, userID : 1..MaxUser, side : {SideBuy, SideSell},
     price : 1..SeqMaxPrice, size : 1..SeqMaxSize, id : {0}, respCh : {0}]
    \cup
    [typ : {cmdSubmitMarket}, userID : 1..MaxUser, side : {SideBuy, SideSell},
     price : {0}, size : 1..SeqMaxSize, id : {0}, respCh : {0}]
    \cup
    [typ : {cmdCancel}, userID : {0}, side : {SideBuy}, price : {0}, size : {0},
     id : 1..MaxId, respCh : {0}]

\* Service.processCommand on cmd when the clock shows now
SeqProcess(cmd, now) ==
    /\ cmd.typ = cmdCancel \/ svc.idGen < MaxId
    /\ ob' = coreCall(ob, cmd, svc.idGen + 1, now).ob
    /\ view' = ApplyAll(view, coreCall(ob, cmd, svc.idGen + 1, now).events)
    /\ svc' = [svc EXCEPT !.idGen = IF cmd.typ = cmdCancel THEN @ ELSE @ + 1]
    /\ tasks' = [tasks EXCEPT !.now = now]
    /\ UNCHANGED << call, ret, pre, hist, log, issued >>

SeqSubmitLimit ==
    \E cmd \in {c \in SeqCommands : c.typ = cmdSubmitLimit},
       now \in tasks.now..SeqMaxTime : SeqProcess(cmd, now)

SeqSubmitMarket ==
    \E cmd \in {c \in SeqCommands : c.typ = cmdSubmitMarket},
       now \in tasks.now..SeqMaxTime : SeqProcess(cmd, now)

SeqCancel ==
    \E cmd \in {c \in SeqCommands : c.typ = cmdCancel},
       now \in tasks.now..SeqMaxTime : SeqProcess(cmd, now)

NextSeq == SeqSubmitLimit \/ SeqSubmitMarket \/ SeqCancel

SpecSeq == InitSeq /\ [][NextSeq]_vars

\* the ids resting on a side of the core in matching priority: the levels
\* best price first, each level's list from its head
RECURSIVE CorePriority(_, _, _)
CorePriority(book, isBid, prices) ==
    IF prices = << >> THEN << >>
    ELSE Fifo(book, isBid, Head(prices)) \o CorePriority(book, isBid, Tail(prices))

IdsOf(orders) == [i \in 1..Len(orders) |-> orders[i].ID]

(***************************************************************************)
(* C39.  For the orders of one orderbook service (ids issued in rising     *)
(* order, times never falling, in the order of execution) and a view that  *)
(* has applied every event so far, Orders(side) lists the resting orders   *)
(* of the side in the core's matching priority: the levels best price      *)
(* first and, within a level, the order of the level's list from its head. *)
(***************************************************************************)
C39_OrdersInPriority ==
    \A side \in {SideBuy, SideSell} :
        IdsOf(Orders(view, side)) =
            CorePriority(ob, side = SideBuy,
                         BestFirst(LevelPrices(ob, side = SideBuy), side))

\* three orders rest on one side: two at the better price, submitted at
\* different times, listed before an order that is older than the second
\* of them and rests at the worse price
C39_Witness ==
    \E side \in {SideBuy, SideSell} :
        /\ Len(Orders(view, side)) = 3
        /\ Orders(view, side)[1].Price = Orders(view, side)[2].Price
        /\ Orders(view, side)[1].Time < Orders(view, side)[2].Time
        /\ Orders(view, side)[2].Price # Orders(view, side)[3].Price
        /\ Orders(view, side)[3].ID < Orders(view, side)[2].ID

\* the snapshot the caller of Snapshot holds has been returned
SnapshotReturned == tasks.snapshot.pc = "idle" /\ tasks.snapshot.returned > 0

\* the step of SnapshotWithBooks that reads the bids of the ticker at hand
ReadsBids == tasks.snapshot.pc = "bids" /\ tasks'.snapshot.pc = "asks"

\* the step that reads its asks and stores its entry
StoresEntry == tasks.snapshot.pc = "asks" /\ tasks'.snapshot.pc # "asks"

C37_NoCrossedSnapshot ==
    SnapshotReturned =>
        \A t \in DOMAIN tasks.snapshot.snap :
            (tasks.snapshot.snap[t].BidOK /\ tasks.snapshot.snap[t].AskOK)
                => tasks.snapshot.snap[t].BidPrice < tasks.snapshot.snap[t].AskPrice

\* where the event e is in the sequence l of pairwise distinct events
PositionIn(l, e) == CHOOSE k \in 1..Len(l) : l[k] = e

\* the Trade event e of ticker t is one its core emitted and the child's
\* view has applied: the newest trade of the view's tape is e or a later one
AppliedTrade(t, e) ==
    /\ e.type = "Trade"
    /\ \E k \in 1..Len(log[t]) : log[t][k] = e
    /\ TradesLast(svc.books[t].view, 1) # << >>
    /\ \E k \in 1..Len(log[t]) : log[t][k] = TradesLast(svc.books[t].view, 1)[1]
    /\ PositionIn(log[t], e) <=
          PositionIn(log[t], TradesLast(svc.books[t].view, 1)[1])

(***************************************************************************)
(* C38.  Whenever an entry of a snapshot has HasLast set, its LastPrice    *)
(* and LastTime are those of a Trade event that the core of that ticker    *)
(* emitted and that the child's view has applied (the trade the market     *)
(* view holds while the snapshot is taken); and of two snapshots returned  *)
(* one after the other, the later one has a last trade for every ticker    *)
(* the earlier one had, and it is the same trade or one the core emitted   *)
(* later.                                                                  *)
(***************************************************************************)
C38_LastTrade ==
    /\ \A t \in DOMAIN svc.books :
          \A j, k \in 1..Len(log[t]) : log[t][j] = log[t][k] => j = k
    /\ \A t \in DOMAIN svc.lastTrade : AppliedTrade(t, svc.lastTrade[t])
    /\ \A t \in DOMAIN tasks.snapshot.snap :
          /\ tasks.snapshot.snap[t].HasLast = (t \in DOMAIN tasks.snapshot.last)
          /\ tasks.snapshot.snap[t].HasLast =>
                /\ AppliedTrade(t, tasks.snapshot.last[t])
                /\ tasks.snapshot.snap[t].LastPrice = tasks.snapshot.last[t].Price
                /\ tasks.snapshot.snap[t].LastTime = tasks.snapshot.last[t].Time
                /\ tasks.snapshot.pc # "idle"
                      => tasks.snapshot.last[t] = svc.lastTrade[t]
          /\ t \in DOMAIN tasks.snapshot.prevLast =>
                /\ tasks.snapshot.snap[t].HasLast
                /\ PositionIn(log[t], tasks.snapshot.prevLast[t]) <=
                      PositionIn(log[t], tasks.snapshot.last[t])

\* two snapshots were returned, the second with a later trade of a ticker
\* than the first; it is the newest trade of the child's view
C38_Witness ==
    /\ SnapshotReturned
    /\ \E t \in DOMAIN tasks.snapshot.prevLast :
          /\ tasks.snapshot.prevLast[t] # tasks.snapshot.last[t]
          /\ TradesLast(svc.books[t].view, 1)[1] = tasks.snapshot.last[t]

\* the events of the records tagged t on the consolidated stream, in the
\* order of the stream
TaggedEvents(t) ==
    LET recs == SelectSeq(MarketStream, LAMBDA m : m.Ticker = t)
    IN  [i \in 1..Len(recs) |-> recs[i].Event]

\* the events the forwarder of t has taken from the child's stream and not
\* yet sent or dropped, and those still in the child's external channel
NotYetForwarded(t) ==
    (IF tasks.forwarders[t].pc = "send" THEN << tasks.forwarders[t].ev.Event >>
     ELSE << >>)
    \o [i \in 1..Len(svc.books[t].externalEvents) |-> svc.books[t].externalEvents[i].ev]

(***************************************************************************)
(* C31.  Every record of the consolidated stream carries the ticker of the *)
(* child service whose core emitted its event.  For each ticker the events *)
(* of the records with its tag are events of that child's external stream  *)
(* in the order of that stream, none twice; with DropMarketEvents false    *)
(* and the market not closed they are that whole stream, up to the events  *)
(* the forwarder has not yet taken or is about to send.                    *)
(***************************************************************************)
C31_TaggedSubsequence ==
    /\ \A i \in 1..Len(MarketStream) :
          /\ MarketStream[i].Ticker \in DOMAIN svc.books
          /\ MarketStream[i].Ticker = MarketStream[i].src
    /\ \A t \in DOMAIN svc.books :
          /\ \A j, k \in 1..Len(hist[t]) : hist[t][j] = hist[t][k] => j = k
          /\ \A i \in 1..Len(TaggedEvents(t)) :
                /\ \E k \in 1..Len(hist[t]) : hist[t][k] = TaggedEvents(t)[i]
                /\ i > 1 => PositionIn(hist[t], TaggedEvents(t)[i - 1])
                                < PositionIn(hist[t], TaggedEvents(t)[i])
          /\ (~svc.cfg.DropMarketEvents /\ ~svc.closed)
                => TaggedEvents(t) \o NotYetForwarded(t) = hist[t]

\* with DropMarketEvents false and the market open, the stream carries an
\* event of one ticker between two events of the other
C31_Witness ==
    /\ ~svc.cfg.DropMarketEvents /\ ~svc.closed
    /\ Len(MarketStream) = 3
    /\ MarketStream[1].Ticker = MarketStream[3].Ticker
    /\ MarketStream[1].Ticker # MarketStream[2].Ticker

(***************************************************************************)
(* C36.  One call of MarketService.Close() returns, also when nobody reads *)
(* the consolidated stream and DropMarketEvents is false.  When it has     *)
(* returned every forwarder has exited and every orderbook service the     *)
(* constructor made is closed.  The consolidated stream is closed only     *)
(* when every forwarder has exited, and no forwarder sends on it once it   *)
(* is closed.                                                              *)
(***************************************************************************)
C36_MktCloseReturns ==
    /\ (tasks.closers[1] = "waiting") ~> (tasks.closers[1] = "returned")
    /\ [](tasks.closers[1] = "returned" =>
            \A t \in 1..MktTickers :
                /\ tasks.forwarders[t].pc = "done"
                /\ svc.books[t].closed /\ svc.books[t].externalClosed)
    /\ [](tasks.closers[1] = "returned" =>
            \A i \in 1..Len(svc.orphans) : svc.orphans[i].closed)
    /\ [](svc.externalClosed =>
            /\ svc.wg = 0
            /\ \A t \in 1..MktTickers : tasks.forwarders[t].pc = "done")
    /\ [](tasks.panic = "none")

=============================================================================
